---- MODULE Spec2Model ----
(***************************************************************************)
(* mcpshim: the Registry (internal/mcp), its OAuth fallback engine         *)
(* (internal/mcp/oauth.go), the SQLite token and history store             *)
(* (internal/store/sqlite.go) and the daemon's `call` handler              *)
(* (internal/server/server.go), as one state machine.                      *)
(*                                                                         *)
(* One worker runs one operation at a time.  Every call into the MCP       *)
(* client library (Start, Initialize, ListTools, CallTool, the OAuth       *)
(* handler) and into the operating system (net.Listen, stdin, the wall     *)
(* clock, SQLite) is answered by the environment: the action that makes    *)
(* the call draws the answer with \E from the answers that call can give.  *)
(***************************************************************************)
EXTENDS Integers, Sequences, FiniteSets, TLC

VARIABLES
  cfg,        \* Registry.cfg: the sequence of config.MCPServer
  tokens,     \* table oauth_tokens: server name -> access token of the stored token
  toolCache,  \* Registry.toolCache: server name -> []protocol.ToolInfo
  history,    \* table call_history, in id order
  pc,         \* where the worker is
  op,         \* the operation in progress: [kind, server, tool, manual, via]
  srv,        \* the config.MCPServer the session engine is working on
  queue,      \* servers still to visit (ListTools without a server, Refresh)
  acc,        \* what that iteration has gathered so far
  direct,     \* the client handle made by newClient
  oauth,      \* the client handle made by newOAuthClient
  cb,         \* the oauthCallbackServer and its params channel
  flow,       \* completeOAuthFlow: its locals and what it has done
  first,      \* result and error of the first (direct) attempt
  ret,        \* result and error the session engine returned
  out,        \* result and error the Registry operation returned
  started,    \* the call handler's `started` wall-clock reading
  stats,      \* the daemon's `call` handler: requests handled, InsertHistory calls
  resp,       \* the response the call handler sent last
  arr,        \* the backing array of cfg.Servers (cfg is its first Len(cfg) slots)
  disk,       \* the configuration file and its temp file
  req,        \* the request the daemon is handling or handled last
  hd,         \* the handler goroutine of a configuration action
  bg,         \* the goroutine of the refresh ticker
  reg         \* the Registry's cache installs, counted

\* the state of the configuration actions, the ticker and the history action
daemonVars == <<arr, disk, req, hd, bg, reg>>

\* the state of the session engine and of the call handler
engineVars == <<tokens, history, pc, op, srv, queue, acc, direct, oauth, cb, flow,
                first, ret, out, started, stats>>

vars == <<cfg, tokens, toolCache, history, pc, op, srv, queue, acc, direct,
          oauth, cb, flow, first, ret, out, started, stats, resp,
          arr, disk, req, hd, bg, reg>>

----------------------------------------------------------------------------
(* Bounds of the model. *)

\* callbacks the browser may deliver to one callback server
MaxCallbacks == 1
\* `call` requests the daemon handles in one behaviour
MaxCalls == 1

----------------------------------------------------------------------------
(* Values. *)

NoErr == "nil"          \* Go's nil error
Zero == <<>>            \* the zero value of a result: nil, a nil slice, struct{}{}
NoToken == "no token"   \* transport.ErrNoToken

EmptyMap == [k \in {} |-> ""]

Notion ==
  [name |-> "notion", alias |-> "n", url |-> "https://notion", transport |-> "http",
   headers |-> EmptyMap, command |-> <<>>, env |-> <<>>]
Github ==
  [name |-> "github", alias |-> "gh", url |-> "https://github", transport |-> "sse",
   headers |-> [k \in {"authorization"} |-> "Bearer x"], command |-> <<>>, env |-> <<>>]
Local ==
  [name |-> "local", alias |-> "local", url |-> "", transport |-> "stdio",
   headers |-> EmptyMap, command |-> <<"echo">>, env |-> <<"FOO=bar">>]

\* The configurations a behaviour may start from.
Configs == { <<Notion, Github>>, <<Local>>, <<>> }

\* what a request may give as its server: names, aliases, a stranger, nothing
ServerQueries == {"", "notion", "n", "github", "local", "nope"}
ToolQueries == {"", "search"}

\* tool lists a provider may answer ListTools with (names, in the provider's order)
ToolLists == { <<>>, <<"search", "fetch">> }
\* results a provider may answer CallTool with (the content of the result)
CallResults == {<<"r1">>, <<"r2">>}
\* access tokens the authorization server may issue
TokenValues == {"tok"}
\* the state mcpclient.GenerateState may return, and the states a request may carry
GenStates == {"s1"}
States == {"s1", "s2"}
\* query parameters of a callback or of a pasted redirect URL; "" is Go's
\* answer for a key that is absent (or present with an empty value)
ParamSet == [state : States \cup {""}, code : {"", "c"}, error : {"", "denied"}]
\* readings of the wall clock, in milliseconds: an earlier and a later one
Clock == {0, 1}

----------------------------------------------------------------------------
(* Errors, by their message. *)

ErrUnauthorized == "unauthorized"                    \* transport.ErrUnauthorized
ErrAuthorizationRequired == "authorization required" \* OAuthAuthorizationRequiredError
ErrTransport == "transport error"   \* any other error of the library, deadline included
ErrNewClient == "client construction failed"
ErrListen == "listen failed"
ErrAdvisory == "requires oauth authorization; run a direct command"
ErrNoCallback == "oauth callback server is not available"
ErrFlowSetup == "oauth flow setup failed"  \* verifier, state, registration, URL
ErrDeadline == "context deadline exceeded"
ErrStateMismatch == "oauth state mismatch"
ErrAuthFailed == "oauth authorization failed"
ErrNoCode == "oauth authorization did not return a code"
ErrExchange == "token exchange failed"
ErrStdin == "stdin read failed"
ErrEmptyInput == "empty input"
ErrURLParse == "url parse failed"
ErrUnknownServer == "unknown server"
ErrToolNotFound == "tool not found on server"
ErrServerAndTool == "server and tool are required"

----------------------------------------------------------------------------
(* internal/store/sqlite.go, internal/mcp/token_store.go *)

\* a GetToken that finds no row
StoreGetTokenNone(rows, server) == NoToken

\* Store.GetToken: no row, or a row whose access token is empty, is no token.
StoreGetToken(rows, server) ==
  IF server \notin DOMAIN rows THEN NoToken
  ELSE IF rows[server] = "" THEN NoToken
  ELSE rows[server]

\* a Store.SaveToken whose row never reaches the table
StoreSaveTokenLost(rows, server, token) == rows

\* Store.SaveToken: INSERT ... ON CONFLICT(server) DO UPDATE.
StoreSaveToken(rows, server, token) ==
  [s \in DOMAIN rows \cup {server} |-> IF s = server THEN token ELSE rows[s]]

----------------------------------------------------------------------------
(* internal/mcp: pure helpers *)

\* net/http.CanonicalHeaderKey on the header names of the model
CanonicalHeaderKey(k) ==
  CASE k \in {"authorization", "Authorization", "AUTHORIZATION"} -> "Authorization"
    [] k \in {"x-api-key", "X-Api-Key"} -> "X-Api-Key"
    [] OTHER -> k

hasAuthorizationHeader(headers) ==
  \E k \in DOMAIN headers : CanonicalHeaderKey(k) = "Authorization"

\* a shouldTryOAuthFallback that does not look at the configured headers
shouldTryIgnoringHeaders(s, e) ==
  IF e = NoErr THEN FALSE
  ELSE IF s.transport = "stdio" THEN FALSE
  ELSE e = ErrUnauthorized

shouldTryOAuthFallback(s, e) ==
  IF e = NoErr THEN FALSE
  ELSE IF s.transport = "stdio" THEN FALSE
  ELSE IF hasAuthorizationHeader(s.headers) THEN FALSE
  ELSE e = ErrUnauthorized

IsOAuthAuthorizationRequiredError(e) == e = ErrAuthorizationRequired

\* config.MCPServer{}
ZeroServer ==
  [name |-> "", alias |-> "", url |-> "", transport |-> "",
   headers |-> EmptyMap, command |-> <<>>, env |-> <<>>]

\* a findServer that falls back to the first server on a miss
findServerFirst(c, nameOrAlias) ==
  LET hits == {i \in 1..Len(c) : c[i].name = nameOrAlias \/ c[i].alias = nameOrAlias}
  IN IF hits = {} /\ c = <<>> THEN [s |-> ZeroServer, ok |-> FALSE]
     ELSE IF hits = {} THEN [s |-> c[1], ok |-> TRUE]
     ELSE [s |-> c[CHOOSE i \in hits : \A j \in hits : i <= j], ok |-> TRUE]

\* findServer: the first server whose name or alias is the query
findServer(c, nameOrAlias) ==
  LET hits == {i \in 1..Len(c) : c[i].name = nameOrAlias \/ c[i].alias = nameOrAlias}
  IN IF hits = {} THEN [s |-> ZeroServer, ok |-> FALSE]
     ELSE [s |-> c[CHOOSE i \in hits : \A j \in hits : i <= j], ok |-> TRUE]

\* byte order of the strings the model sorts
StrOrder == <<"fetch", "github", "local", "notion", "search">>
StrRank(x) == CHOOSE i \in 1..Len(StrOrder) : StrOrder[i] = x
StrLess(a, b) == StrRank(a) < StrRank(b)

\* the less function of ListTools' sort.Slice
ToolLess(a, b) ==
  IF a.server = b.server THEN StrLess(a.name, b.name) ELSE StrLess(a.server, b.server)

RECURSIVE InsertSorted(_, _)
InsertSorted(x, s) ==
  IF s = <<>> THEN <<x>>
  ELSE IF ToolLess(x, Head(s)) THEN <<x>> \o s
  ELSE <<Head(s)>> \o InsertSorted(x, Tail(s))

RECURSIVE SortTools(_)
SortTools(s) == IF s = <<>> THEN <<>> ELSE InsertSorted(Head(s), SortTools(Tail(s)))

\* fetchToolsForServer: one ToolInfo per tool of the raw list, in its order
ToolInfos(server, raw) == [i \in 1..Len(raw) |-> [server |-> server, name |-> raw[i]]]

IsListKind(kind) == kind \in {"tools", "toolsAll", "refresh", "inspect"}

\* the zero value of the operation's result type: a nil slice, nil, struct{}{}
ZeroOf(kind) == IF IsListKind(kind) THEN <<>> ELSE Zero

\* a Refresh that runs the engine with interactive = true
InteractiveAlways(kind) == TRUE

\* Refresh alone runs the engine with interactive = false
Interactive(kind) == kind # "refresh"

----------------------------------------------------------------------------
(* A session: runOperationWithClient on a client handle. *)

\* A client handle: whether it was made, how often Start, Initialize, the
\* operation closure, ListTools or CallTool, and Close were called on it, how
\* often it read its token store, and the error of its last session.
Handle0 == [made |-> FALSE, kind |-> "", starts |-> 0, inits |-> 0, ops |-> 0,
            calls |-> 0, closes |-> 0, tokenReads |-> 0, err |-> NoErr]

\* newClient: an SSE client for an sse descriptor and a streamable-HTTP client
\* for every other one, or the error of the library's constructor
newClient(s, libOk) ==
  IF s.transport = "sse"
    THEN IF libOk THEN [h |-> [Handle0 EXCEPT !.made = TRUE, !.kind = "sse"], err |-> NoErr]
         ELSE [h |-> Handle0, err |-> ErrNewClient]
    ELSE IF libOk THEN [h |-> [Handle0 EXCEPT !.made = TRUE, !.kind = "http"], err |-> NoErr]
         ELSE [h |-> Handle0, err |-> ErrNewClient]

\* How the operation closure can end on a live client.
OperationOutcomes(kind, errs) ==
  IF kind = "login"
    THEN {[stage |-> "op", err |-> NoErr, val |-> Zero]}
    ELSE {[stage |-> "op", err |-> e, val |-> ZeroOf(kind)] : e \in errs}
         \cup {[stage |-> "op", err |-> NoErr, val |-> v] :
                 v \in IF kind = "call" THEN CallResults ELSE ToolLists}

\* How runOperationWithClient can end: Start fails, Initialize fails, or the
\* operation closure runs and its result and error are returned.
AttemptOutcomes(kind, errs) ==
  {[stage |-> st, err |-> e, val |-> ZeroOf(kind)] : st \in {"start", "init"}, e \in errs}
  \cup OperationOutcomes(kind, errs)

\* what runOperationWithClient has called on the handle when it ends with o;
\* the closure of Call calls CallTool, that of the listings ListTools, and
\* runOAuthLogin's closure calls nothing
runOperationWithClient(h, o, kind) ==
  [h EXCEPT !.starts = @ + 1,
            !.inits = @ + (IF o.stage \in {"init", "op"} THEN 1 ELSE 0),
            !.ops = @ + (IF o.stage = "op" THEN 1 ELSE 0),
            !.calls = @ + (IF o.stage = "op" /\ kind # "login" THEN 1 ELSE 0),
            !.err = o.err]

\* a closeFn that leaves the client open
closeFnLeak(h) == h

\* the closeFn returned with a client
closeFn(h) == IF h.made THEN [h EXCEPT !.closes = @ + 1] ELSE h

\* The direct client knows no OAuth handler: it fails unauthorized or otherwise.
DirectOutcomes(kind) == AttemptOutcomes(kind, {ErrUnauthorized, ErrTransport})

\* The OAuth-wrapped client asks its token store for the token before every
\* request (sqliteTokenStore.GetToken); without one it sends nothing and fails
\* with the authorization-required error (or with its context's error).
WrappedOutcomes(kind, token) ==
  IF token = NoToken
    THEN {[stage |-> st, err |-> e, val |-> ZeroOf(kind)] :
            st \in {"start", "init"}, e \in {ErrAuthorizationRequired, ErrTransport}}
    ELSE AttemptOutcomes(kind, {ErrAuthorizationRequired, ErrUnauthorized, ErrTransport})

----------------------------------------------------------------------------
(* The state after construction: NewRegistry, store.Open. *)

NoOp == [kind |-> "none", server |-> "", tool |-> "", manual |-> FALSE, via |-> "none"]
NoRet == [val |-> Zero, err |-> NoErr]
Cb0 == [starts |-> 0, closes |-> 0, chan |-> <<>>, hits |-> 0]
\* completeOAuthFlow: how often it ran, the state it generated, how often it
\* printed the authorization URL, waited for the callback, read stdin and
\* called ProcessAuthorizationResponse, and the parameters it received
Flow0 == [runs |-> 0, state |-> "", urls |-> 0, waits |-> 0, reads |-> 0,
          got |-> <<>>, exchanges |-> 0]
Stats0 == [handled |-> 0, rejected |-> 0, inserts |-> 0, failed |-> 0]

\* no request yet
NoReq == [action |-> "none"]
\* a Refresh that is not running. A running one holds the length n of the
\* slice it ranges over, the number i of elements visited, whether the slice
\* still shares the backing array of the server's config (live) or its own
\* array (snap), its local cache, and the listings it made
Refresh0 == [pc |-> "idle", live |-> FALSE, snap |-> <<>>, i |-> 0, n |-> 0,
             cache |-> EmptyMap, log |-> <<>>]
Hd0 == Refresh0
Bg0 == Refresh0
\* the config path and its temp file, neither existing
NoFiles == [live |-> <<>>, tmp |-> <<>>]

\* the cache the last completed Refresh installed, the listings it made, the
\* error it returned, and whether UpdateConfig replaced the cache since
Reg0 == [byRefresh |-> EmptyMap, log |-> <<>>, err |-> NoErr, cleared |-> FALSE]

\* The token table may hold tokens of earlier runs of the program.
TokenTables == { EmptyMap, [s \in {"notion"} |-> "tok"] }

InitWith(configs) ==
  /\ cfg \in configs
  /\ tokens \in TokenTables
  /\ toolCache = EmptyMap
  /\ history = <<>>
  /\ pc = "idle"
  /\ op = NoOp
  /\ srv = ZeroServer
  /\ queue = <<>>
  /\ acc = <<>>
  /\ direct = Handle0
  /\ oauth = Handle0
  /\ cb = Cb0
  /\ flow = Flow0
  /\ first = NoRet
  /\ ret = NoRet
  /\ out = NoRet
  /\ started = 0
  /\ stats = Stats0
  /\ resp = <<>>
  /\ arr = cfg
  /\ disk = NoFiles
  /\ req = NoReq
  /\ hd = Hd0
  /\ bg = Bg0
  /\ reg = Reg0

Init == InitWith(Configs)

----------------------------------------------------------------------------
(* The session engine: runWithOAuthFallback and runOAuthLogin. *)

\* oauthCallbackServer.close, deferred once the server was started; nothing
\* reads the params channel of a closed server again
cbClose(c) == IF c.starts > 0 THEN [c EXCEPT !.closes = @ + 1, !.chan = <<>>] ELSE c

cbRunning == cb.starts > cb.closes

\* The engine starts on server s: nothing of an earlier session is kept.
Enter(s, kind) ==
  /\ srv' = s
  /\ direct' = Handle0
  /\ oauth' = Handle0
  /\ cb' = Cb0
  /\ flow' = Flow0
  /\ first' = NoRet
  /\ ret' = NoRet
  /\ pc' = IF kind = "login" THEN "setup" ELSE "direct"

\* The engine returns r: the deferred closeFn and callback.close run.
EngineReturn(r, h, c) ==
  /\ pc' = "ret"
  /\ ret' = r
  /\ oauth' = closeFn(h)
  /\ cb' = cbClose(c)

\* a runWithOAuthFallback that, after a successful flow, goes back to the
\* wrapped attempt and its error handling
FlowReturnRetry(e, h, c) ==
  IF op.kind = "login" THEN EngineReturn([val |-> Zero, err |-> e], h, c)
  ELSE IF e # NoErr THEN EngineReturn([val |-> ZeroOf(op.kind), err |-> e], h, c)
  ELSE /\ pc' = "wrapped"
       /\ ret' = ret
       /\ oauth' = h
       /\ cb' = c

\* completeOAuthFlow returns e to runOAuthLogin (which returns it) or to
\* runWithOAuthFallback (which returns an error, and re-runs the operation
\* when there is none).
FlowReturn(e, h, c) ==
  IF op.kind = "login" THEN EngineReturn([val |-> Zero, err |-> e], h, c)
  ELSE IF e # NoErr THEN EngineReturn([val |-> ZeroOf(op.kind), err |-> e], h, c)
  ELSE /\ pc' = "rerun"
       /\ ret' = ret
       /\ oauth' = h
       /\ cb' = c

\* runWithOAuthFallback, the first attempt (runOperation): newClient, the
\* session, closeFn; then the decision to fall back.
RunDirect ==
  /\ pc = "direct"
  /\ \E o \in DirectOutcomes(op.kind)
             \cup {[stage |-> "new", err |-> newClient(srv, FALSE).err,
                     val |-> ZeroOf(op.kind)]} :
       LET r == [val |-> o.val, err |-> o.err]
       IN /\ direct' = IF o.stage = "new" THEN newClient(srv, FALSE).h
                       ELSE closeFn(runOperationWithClient(newClient(srv, TRUE).h, o, op.kind))
          /\ first' = r
          /\ IF r.err = NoErr \/ ~shouldTryOAuthFallback(srv, r.err)
               THEN pc' = "ret" /\ ret' = r
               ELSE pc' = "setup" /\ ret' = ret
  /\ UNCHANGED <<cfg, tokens, toolCache, history, op, srv, queue, acc, oauth, cb,
                 flow, out, started, stats, resp>>
  /\ UNCHANGED daemonVars

\* whether the engine starts a callback server before it builds the client
needsCallback == IF op.kind = "login" THEN ~op.manual ELSE Interactive(op.kind)

\* startOAuthCallbackServer and newOAuthClient
OAuthSetup ==
  /\ pc = "setup"
  /\ \E listenOk, clientOk \in BOOLEAN :
       LET c == IF needsCallback /\ listenOk THEN [cb EXCEPT !.starts = @ + 1] ELSE cb
       IN IF needsCallback /\ ~listenOk
            THEN EngineReturn([val |-> ZeroOf(op.kind), err |-> ErrListen], oauth, cb)
          ELSE IF ~clientOk
            THEN EngineReturn([val |-> ZeroOf(op.kind), err |-> ErrNewClient], oauth, c)
          ELSE /\ pc' = "wrapped"
               /\ ret' = ret
               /\ oauth' = [oauth EXCEPT !.made = TRUE]
               /\ cb' = c
  /\ UNCHANGED <<cfg, tokens, toolCache, history, op, srv, queue, acc, direct,
                 flow, first, out, started, stats, resp>>
  /\ UNCHANGED daemonVars

\* a session on the OAuth-wrapped client: the token store is read first
WrappedSession(h, o, kind) ==
  runOperationWithClient([h EXCEPT !.tokenReads = @ + 1], o, kind)

\* the attempt through the OAuth-wrapped client, and what its error leads to
RunWrapped ==
  /\ pc = "wrapped"
  /\ \E o \in WrappedOutcomes(op.kind, StoreGetToken(tokens, srv.name)) :
       LET h == WrappedSession(oauth, o, op.kind)
           r == [val |-> o.val, err |-> o.err]
       IN IF r.err = NoErr THEN EngineReturn(r, h, cb)
          ELSE IF ~IsOAuthAuthorizationRequiredError(r.err) THEN EngineReturn(r, h, cb)
          ELSE IF op.kind # "login" /\ ~Interactive(op.kind)
            THEN EngineReturn([val |-> ZeroOf(op.kind), err |-> ErrAdvisory], h, cb)
          ELSE IF op.kind # "login" /\ cb.starts = 0
            THEN EngineReturn([val |-> ZeroOf(op.kind), err |-> ErrNoCallback], h, cb)
          ELSE /\ pc' = "flow"
               /\ ret' = ret
               /\ oauth' = h
               /\ cb' = cb
  /\ UNCHANGED <<cfg, tokens, toolCache, history, op, srv, queue, acc, direct,
                 flow, first, out, started, stats, resp>>
  /\ UNCHANGED daemonVars

\* completeOAuthFlow up to the wait: handler, verifier, state, registration,
\* authorization URL printed and opened
FlowBegin ==
  /\ pc = "flow"
  /\ \E st \in GenStates, setup \in {"ok", "no handler", "failed"} :
       LET f == [flow EXCEPT !.runs = @ + 1]
       IN CASE setup = "no handler" ->
                 /\ flow' = f
                 /\ FlowReturn(ErrAuthorizationRequired, oauth, cb)
            [] setup = "failed" ->
                 /\ flow' = f
                 /\ FlowReturn(ErrFlowSetup, oauth, cb)
            [] OTHER ->
                 /\ flow' = [f EXCEPT !.state = st, !.urls = @ + 1]
                 /\ IF op.kind = "login" /\ op.manual
                      THEN pc' = "manual" /\ ret' = ret /\ oauth' = oauth /\ cb' = cb
                    ELSE IF cb.starts = 0
                      THEN FlowReturn(ErrNoCallback, oauth, cb)
                    ELSE pc' = "await" /\ ret' = ret /\ oauth' = oauth /\ cb' = cb
  /\ UNCHANGED <<cfg, tokens, toolCache, history, op, srv, queue, acc, direct,
                 first, out, started, stats, resp>>
  /\ UNCHANGED daemonVars

\* the handler of /oauth/callback: the parameters go to the channel when it
\* has room and are dropped otherwise
Callback ==
  /\ cbRunning
  /\ cb.hits < MaxCallbacks
  /\ \E p \in ParamSet :
       cb' = [cb EXCEPT !.hits = @ + 1,
                        !.chan = IF Len(@) < 1 THEN Append(@, p) ELSE @]
  /\ UNCHANGED <<cfg, tokens, toolCache, history, pc, op, srv, queue, acc, direct,
                 oauth, flow, first, ret, out, started, stats, resp>>
  /\ UNCHANGED daemonVars

\* a completeOAuthFlow that does not compare the callback's state
callbackVerdictNoState(p, state) ==
  IF p.code # "" THEN "exchange"
  ELSE IF p.error # "" THEN ErrAuthFailed
  ELSE ErrNoCode

\* completeOAuthFlow after the callback's parameters arrived: what to do
callbackVerdict(p, state) ==
  IF p.state # state THEN ErrStateMismatch
  ELSE IF p.code # "" THEN "exchange"
  ELSE IF p.error # "" THEN ErrAuthFailed
  ELSE ErrNoCode

\* completeOAuthFlow after readManualOAuthInput returned parameters
manualVerdict(p) ==
  IF p.code # "" THEN "exchange"
  ELSE IF p.error # "" THEN ErrAuthFailed
  ELSE ErrNoCode

\* what the user may type in manual mode
ManualLines ==
  {[kind |-> k, params |-> [state |-> "", code |-> "", error |-> ""]] :
     k \in {"read error", "empty", "bad url"}}
  \cup {[kind |-> "code", params |-> [state |-> "", code |-> "c", error |-> ""]]}
  \cup {[kind |-> "url", params |-> p] : p \in ParamSet}

\* readManualOAuthInput: the parameters and the error it returns
readManualOAuthInput(line, expectedState) ==
  CASE line.kind = "read error" -> [params |-> line.params, err |-> ErrStdin]
    [] line.kind = "empty" -> [params |-> line.params, err |-> ErrEmptyInput]
    [] line.kind = "bad url" -> [params |-> line.params, err |-> ErrURLParse]
    [] line.kind = "url" ->
         IF line.params.state # "" /\ line.params.state # expectedState
           THEN [params |-> line.params, err |-> ErrStateMismatch]
           ELSE [params |-> line.params, err |-> NoErr]
    [] OTHER -> [params |-> line.params, err |-> NoErr]

\* oauthHandler.ProcessAuthorizationResponse: the code is exchanged and the
\* token saved through sqliteTokenStore.SaveToken, or the exchange fails
Exchange(verdict, f, c) ==
  IF verdict = "exchange"
    THEN \E tok \in TokenValues \cup {NoToken} :
           /\ flow' = [f EXCEPT !.exchanges = @ + 1]
           /\ IF tok = NoToken
                THEN tokens' = tokens /\ FlowReturn(ErrExchange, oauth, c)
                ELSE /\ tokens' = StoreSaveToken(tokens, srv.name, tok)
                     /\ FlowReturn(NoErr, oauth, c)
    ELSE /\ flow' = f
         /\ tokens' = tokens
         /\ FlowReturn(verdict, oauth, c)

\* callback.wait under the five-minute context, then the checks
AwaitCallback ==
  /\ pc = "await"
  /\ \/ /\ cb.chan # <<>>
        /\ LET p == Head(cb.chan)
           IN Exchange(callbackVerdict(p, flow.state),
                       [flow EXCEPT !.waits = @ + 1, !.got = <<p>>],
                       [cb EXCEPT !.chan = Tail(@)])
     \/ /\ flow' = [flow EXCEPT !.waits = @ + 1]
        /\ tokens' = tokens
        /\ FlowReturn(ErrDeadline, oauth, cb)
  /\ UNCHANGED <<cfg, toolCache, history, op, srv, queue, acc, direct,
                 first, out, started, stats, resp>>
  /\ UNCHANGED daemonVars

\* manual mode: one line from stdin, then the checks
ManualInput ==
  /\ pc = "manual"
  /\ \E line \in ManualLines :
       LET in == readManualOAuthInput(line, flow.state)
           f == [flow EXCEPT !.reads = @ + 1,
                             !.got = IF line.kind \in {"url", "code"}
                                       THEN <<line.params>> ELSE @]
       IN IF in.err # NoErr
            THEN /\ flow' = f
                 /\ tokens' = tokens
                 /\ FlowReturn(in.err, oauth, cb)
            ELSE Exchange(manualVerdict(in.params), f, cb)
  /\ UNCHANGED <<cfg, toolCache, history, op, srv, queue, acc, direct,
                 first, out, started, stats, resp>>
  /\ UNCHANGED daemonVars

\* runWithOAuthFallback's last line: the operation once more on the wrapped client
Rerun ==
  /\ pc = "rerun"
  /\ \E o \in WrappedOutcomes(op.kind, StoreGetToken(tokens, srv.name)) :
       EngineReturn([val |-> o.val, err |-> o.err], WrappedSession(oauth, o, op.kind), cb)
  /\ UNCHANGED <<cfg, tokens, toolCache, history, op, srv, queue, acc, direct,
                 flow, first, out, started, stats, resp>>
  /\ UNCHANGED daemonVars

----------------------------------------------------------------------------
(* The Registry's operations. *)

\* An operation begins: the configuration is read, the server resolved, and
\* the engine entered on it (ListTools without a server and Refresh visit
\* cfg.Servers in order).
StartOp(o) ==
  /\ op' = o
  /\ IF o.kind \in {"toolsAll", "refresh"}
       THEN IF cfg = <<>>
              THEN /\ pc' = "opdone"
                   /\ out' = [val |-> ZeroOf(o.kind), err |-> NoErr]
                   /\ toolCache' = IF o.kind = "refresh" THEN EmptyMap ELSE toolCache
                   /\ UNCHANGED <<srv, queue, acc, direct, oauth, cb, flow, first, ret>>
              ELSE /\ Enter(Head(cfg), o.kind)
                   /\ queue' = Tail(cfg)
                   /\ acc' = <<>>
                   /\ UNCHANGED <<out, toolCache>>
       ELSE LET f == findServer(cfg, o.server)
            IN IF ~f.ok
                 THEN /\ pc' = "opdone"
                      /\ out' = [val |-> ZeroOf(o.kind), err |-> ErrUnknownServer]
                      /\ UNCHANGED <<srv, queue, acc, direct, oauth, cb, flow, first,
                                     ret, toolCache>>
                 ELSE /\ Enter(f.s, o.kind)
                      /\ UNCHANGED <<out, queue, acc, toolCache>>

RegistryOp(kind, server, tool, manual) ==
  [kind |-> kind, server |-> server, tool |-> tool, manual |-> manual, via |-> "registry"]

\* Registry.ListTools
ListTools ==
  /\ pc = "idle"
  /\ \E server \in ServerQueries :
       StartOp(RegistryOp(IF server = "" THEN "toolsAll" ELSE "tools", server, "", FALSE))
  /\ UNCHANGED <<cfg, tokens, history, started, stats, resp>>
  /\ UNCHANGED daemonVars

\* Registry.Refresh
Refresh ==
  /\ pc = "idle"
  /\ StartOp(RegistryOp("refresh", "", "", FALSE))
  /\ UNCHANGED <<cfg, tokens, history, started, stats, resp>>
  /\ UNCHANGED daemonVars

\* Registry.InspectTool
InspectTool ==
  /\ pc = "idle"
  /\ \E server \in ServerQueries, tool \in ToolQueries :
       StartOp(RegistryOp("inspect", server, tool, FALSE))
  /\ UNCHANGED <<cfg, tokens, history, started, stats, resp>>
  /\ UNCHANGED daemonVars

\* Registry.Call
Call ==
  /\ pc = "idle"
  /\ \E server \in ServerQueries, tool \in ToolQueries :
       StartOp(RegistryOp("call", server, tool, FALSE))
  /\ UNCHANGED <<cfg, tokens, history, started, stats, resp>>
  /\ UNCHANGED daemonVars

\* Registry.Login
Login ==
  /\ pc = "idle"
  /\ \E server \in ServerQueries, manual \in BOOLEAN :
       StartOp(RegistryOp("login", server, "", manual))
  /\ UNCHANGED <<cfg, tokens, history, started, stats, resp>>
  /\ UNCHANGED daemonVars

\* InspectTool after fetchToolsRaw: the tool of that name, as a ToolDetail
inspectResult(r, server, tool) ==
  IF r.err # NoErr THEN [val |-> <<>>, err |-> r.err]
  ELSE IF \E i \in 1..Len(r.val) : r.val[i] = tool
    THEN [val |-> <<[server |-> server, name |-> tool]>>, err |-> NoErr]
  ELSE [val |-> <<>>, err |-> ErrToolNotFound]

\* fetchToolsForServer after fetchToolsRaw
fetchResult(r, server) ==
  IF r.err # NoErr THEN [val |-> <<>>, err |-> r.err]
  ELSE [val |-> ToolInfos(server, r.val), err |-> NoErr]

\* what the operation returns once the engine has returned r
operationResult(kind, r, s, tool) ==
  CASE kind = "tools" -> fetchResult(r, s.name)
    [] kind = "inspect" -> inspectResult(r, s.name, tool)
    [] kind = "call" -> IF r.err # NoErr THEN [val |-> Zero, err |-> r.err] ELSE r
    [] OTHER -> [val |-> Zero, err |-> r.err]

\* ListTools with a server, InspectTool, Call, Login: the engine has returned
OperationReturn ==
  /\ pc = "ret"
  /\ op.kind \in {"tools", "inspect", "call", "login"}
  /\ out' = operationResult(op.kind, ret, srv, op.tool)
  /\ pc' = "opdone"
  /\ UNCHANGED <<cfg, tokens, toolCache, history, op, srv, queue, acc, direct,
                 oauth, cb, flow, first, ret, started, stats, resp>>
  /\ UNCHANGED daemonVars

\* a gather that forgets what it has when a server fails
gatherReset(kind, a, r, s) ==
  IF r.err # NoErr THEN IF kind = "refresh" THEN EmptyMap ELSE <<>>
  ELSE IF kind = "refresh"
    THEN [n \in DOMAIN a \cup {s.name} |->
            IF n = s.name THEN ToolInfos(s.name, r.val) ELSE a[n]]
  ELSE a \o ToolInfos(s.name, r.val)

\* what the iteration has gathered after the engine returned r for server s:
\* a server that failed adds nothing
gather(kind, a, r, s) ==
  IF r.err # NoErr THEN a
  ELSE IF kind = "refresh"
    THEN [n \in DOMAIN a \cup {s.name} |->
            IF n = s.name THEN ToolInfos(s.name, r.val) ELSE a[n]]
  ELSE a \o ToolInfos(s.name, r.val)

\* ListTools without a server, Refresh: the engine has returned for one
\* server; the next one is visited, or the list is sorted and returned
\* (ListTools), or the cache installed (Refresh).
IterationStep ==
  /\ pc = "ret"
  /\ op.kind \in {"toolsAll", "refresh"}
  /\ LET a == gather(op.kind, acc, ret, srv)
     IN /\ acc' = a
        /\ IF queue # <<>>
             THEN /\ Enter(Head(queue), op.kind)
                  /\ queue' = Tail(queue)
                  /\ UNCHANGED <<out, toolCache>>
             ELSE /\ pc' = "opdone"
                  /\ out' = IF op.kind = "refresh" THEN [val |-> <<>>, err |-> NoErr]
                            ELSE [val |-> SortTools(a), err |-> NoErr]
                  /\ toolCache' = IF op.kind = "refresh" THEN a ELSE toolCache
                  /\ UNCHANGED <<srv, queue, direct, oauth, cb, flow, first, ret>>
  /\ UNCHANGED <<cfg, tokens, history, op, started, stats, resp>>
  /\ UNCHANGED daemonVars

\* every register of the finished operation is dropped
Forget ==
  /\ pc' = "idle"
  /\ op' = NoOp
  /\ srv' = ZeroServer
  /\ queue' = <<>>
  /\ acc' = <<>>
  /\ direct' = Handle0
  /\ oauth' = Handle0
  /\ cb' = Cb0
  /\ flow' = Flow0
  /\ first' = NoRet
  /\ ret' = NoRet
  /\ out' = NoRet

\* the Registry's caller has its result
Deliver ==
  /\ pc = "opdone"
  /\ op.via = "registry"
  /\ Forget
  /\ UNCHANGED <<cfg, tokens, toolCache, history, started, stats, resp>>
  /\ UNCHANGED daemonVars

Next ==
  \/ ListTools \/ Refresh \/ InspectTool \/ Call \/ Login
  \/ RunDirect \/ OAuthSetup \/ RunWrapped \/ FlowBegin \/ Callback
  \/ AwaitCallback \/ ManualInput \/ Rerun
  \/ OperationReturn \/ IterationStep \/ Deliver

Spec == Init /\ [][Next]_vars

\* the operations that run runWithOAuthFallback, and the engine
NextFallback ==
  \/ ListTools \/ Refresh \/ InspectTool \/ Call
  \/ RunDirect \/ OAuthSetup \/ RunWrapped \/ FlowBegin \/ Callback
  \/ AwaitCallback \/ Rerun
  \/ OperationReturn \/ IterationStep \/ Deliver

\* the engine's steps: each is a call of the library, of the operating system
\* or of the store that returns (every wait runs under a context deadline)
EngineStep ==
  RunDirect \/ OAuthSetup \/ RunWrapped \/ FlowBegin \/ AwaitCallback \/ Rerun

\* runWithOAuthFallback with its goroutine scheduled
FairSpec == Init /\ [][NextFallback]_vars /\ WF_vars(EngineStep)

----------------------------------------------------------------------------
(* The daemon's `call` action: Server.handle, case "call". *)

\* protocol.Response of the call action
callResponse(r) ==
  IF r.err # NoErr THEN [ok |-> FALSE, error |-> r.err, result |-> Zero]
  ELSE [ok |-> TRUE, error |-> "", result |-> r.val]

\* protocol.HistoryItem of the call action.  `at` lost its monotonic reading
\* in time.Now().UTC(), so time.Since(started) is the difference of two
\* wall-clock readings.
historyItem(o, at, now, r) ==
  [at |-> at, server |-> o.server, tool |-> o.tool, success |-> r.err = NoErr,
   error |-> IF r.err # NoErr THEN r.err ELSE "", duration_ms |-> now - at]

\* Store.InsertHistory: the row is appended, or the write fails
InsertHistory(rows, item, dbOk) == IF dbOk THEN Append(rows, item) ELSE rows

\* a handler that returns the error before it writes the history item
finishCallEarlyReturn(rows, item, r, dbOk) ==
  IF r.err # NoErr
    THEN [rows |-> rows, inserts |-> 0, failed |-> 0, resp |-> callResponse(r)]
    ELSE [rows |-> InsertHistory(rows, item, dbOk), inserts |-> 1,
          failed |-> IF dbOk THEN 0 ELSE 1, resp |-> callResponse(r)]

\* a handler that reports a failed history write to the client
finishCallReportsWrite(rows, item, r, dbOk) ==
  [rows |-> InsertHistory(rows, item, dbOk), inserts |-> 1,
   failed |-> IF dbOk THEN 0 ELSE 1,
   resp |-> IF dbOk THEN callResponse(r)
            ELSE [ok |-> FALSE, error |-> "insert history", result |-> Zero]]

\* the handler after Registry.Call returned r: InsertHistory is called once,
\* its error dropped, and the response built from r
finishCall(rows, item, r, dbOk) ==
  [rows |-> InsertHistory(rows, item, dbOk), inserts |-> 1,
   failed |-> IF dbOk THEN 0 ELSE 1, resp |-> callResponse(r)]

\* a `call` request arrives: it is rejected when server or tool is missing;
\* otherwise the wall clock is read and Registry.Call begins
HandleCall ==
  /\ pc = "idle"
  /\ stats.handled < MaxCalls
  /\ \E server \in ServerQueries, tool \in ToolQueries, now \in Clock :
       IF server = "" \/ tool = ""
         THEN /\ resp' = <<[ok |-> FALSE, error |-> ErrServerAndTool, result |-> Zero]>>
              /\ stats' = [stats EXCEPT !.handled = @ + 1, !.rejected = @ + 1]
              /\ UNCHANGED <<pc, op, srv, queue, acc, direct, oauth, cb, flow, first,
                             ret, out, started, toolCache>>
         ELSE /\ started' = now
              /\ stats' = [stats EXCEPT !.handled = @ + 1]
              /\ StartOp([kind |-> "call", server |-> server, tool |-> tool,
                          manual |-> FALSE, via |-> "router"])
              /\ resp' = resp
  /\ UNCHANGED <<cfg, tokens, history>>
  /\ UNCHANGED daemonVars

\* Registry.Call has returned: the history item is written, its write error
\* dropped, and the response sent
FinishCall ==
  /\ pc = "opdone"
  /\ op.via = "router"
  /\ \E now \in Clock, dbOk \in BOOLEAN :
       LET f == finishCall(history, historyItem(op, started, now, out), out, dbOk)
       IN /\ history' = f.rows
          /\ stats' = [stats EXCEPT !.inserts = @ + f.inserts, !.failed = @ + f.failed]
          /\ resp' = <<f.resp>>
  /\ started' = 0
  /\ Forget
  /\ UNCHANGED <<cfg, tokens, toolCache>>
  /\ UNCHANGED daemonVars

NextRouter ==
  \/ HandleCall
  \/ RunDirect \/ OAuthSetup \/ RunWrapped \/ FlowBegin \/ Callback
  \/ AwaitCallback \/ Rerun
  \/ OperationReturn \/ FinishCall

SpecRouter == Init /\ [][NextRouter]_vars

----------------------------------------------------------------------------
(* newClient on its own, as the tests of mcp_test.go call it. *)

\* the descriptors newClient is applied to
Descriptors ==
  {[name |-> "d", alias |-> "", url |-> u, transport |-> tr, headers |-> h,
    command |-> c, env |-> e] :
     u \in {"", "https://d"}, tr \in {"http", "sse", "stdio"},
     h \in {EmptyMap, [k \in {"authorization"} |-> "Bearer x"]},
     c \in {<<>>, <<"echo">>}, e \in {<<>>, <<"FOO=bar">>}}

\* the state in which newClient is about to be applied to a descriptor
InitNewClient ==
  /\ cfg = <<>>
  /\ tokens = EmptyMap
  /\ toolCache = EmptyMap
  /\ history = <<>>
  /\ pc = "new"
  /\ op = NoOp
  /\ srv \in Descriptors
  /\ queue = <<>>
  /\ acc = <<>>
  /\ direct = Handle0
  /\ oauth = Handle0
  /\ cb = Cb0
  /\ flow = Flow0
  /\ first = NoRet
  /\ ret = NoRet
  /\ out = NoRet
  /\ started = 0
  /\ stats = Stats0
  /\ resp = <<>>
  /\ arr = <<>>
  /\ disk = NoFiles
  /\ req = NoReq
  /\ hd = Hd0
  /\ bg = Bg0
  /\ reg = Reg0

\* newClient(s): the handle and the error it returns
NewClient ==
  /\ pc = "new"
  /\ \E libOk \in BOOLEAN :
       /\ direct' = newClient(srv, libOk).h
       /\ first' = [val |-> Zero, err |-> newClient(srv, libOk).err]
  /\ pc' = "newdone"
  /\ UNCHANGED <<cfg, tokens, toolCache, history, op, srv, queue, acc, oauth, cb,
                 flow, ret, out, started, stats, resp>>
  /\ UNCHANGED daemonVars

SpecNewClient == InitNewClient /\ [][NewClient]_vars

----------------------------------------------------------------------------
(* internal/config: normalizeTransport, validate, UpsertServer, RemoveServer, *)
(* Load and Save.                                                            *)

ErrUnsupportedTransport == "unsupported transport"
ErrNameRequired == "server name is required"
ErrCommandRequired == "command is required for stdio transport"
ErrURLRequired == "url is required"
ErrDuplicateName == "duplicate server name"
ErrDuplicateAlias == "duplicate alias"
ErrNotExist == "no such file or directory"
ErrYAML == "yaml: cannot decode"
ErrWrite == "write failed"
ErrRename == "rename failed"
ErrResultInvalid == "resulting config is invalid"

\* strings.TrimSpace(strings.ToLower(value)) on the transports of the model
TrimLower(v) ==
  CASE v \in {" HTTP ", "HTTP"} -> "http"
    [] v \in {"SSE", " sse"} -> "sse"
    [] v \in {"STDIO", "stdio "} -> "stdio"
    [] OTHER -> v

normalizeTransport(value) ==
  LET v == TrimLower(value)
  IN CASE v \in {"", "http", "streamable-http"} -> [transport |-> "http", err |-> NoErr]
       [] v = "sse" -> [transport |-> "sse", err |-> NoErr]
       [] v = "stdio" -> [transport |-> "stdio", err |-> NoErr]
       [] OTHER -> [transport |-> "", err |-> ErrUnsupportedTransport]

\* a validate that does not look at aliases
validateServerNoAlias(s, seen, aliases) ==
  IF s.name = "" THEN ErrNameRequired
  ELSE IF normalizeTransport(s.transport).err # NoErr THEN ErrUnsupportedTransport
  ELSE IF normalizeTransport(s.transport).transport = "stdio" /\ Len(s.command) = 0
    THEN ErrCommandRequired
  ELSE IF normalizeTransport(s.transport).transport # "stdio" /\ s.url = ""
    THEN ErrURLRequired
  ELSE IF s.name \in seen THEN ErrDuplicateName
  ELSE NoErr

\* the error validate returns for server s after the names in seen and the
\* aliases in aliases were seen
validateServer(s, seen, aliases) ==
  IF s.name = "" THEN ErrNameRequired
  ELSE IF normalizeTransport(s.transport).err # NoErr THEN ErrUnsupportedTransport
  ELSE IF normalizeTransport(s.transport).transport = "stdio" /\ Len(s.command) = 0
    THEN ErrCommandRequired
  ELSE IF normalizeTransport(s.transport).transport # "stdio" /\ s.url = ""
    THEN ErrURLRequired
  ELSE IF s.name \in seen THEN ErrDuplicateName
  ELSE IF (IF s.alias = "" THEN s.name ELSE s.alias) \in aliases THEN ErrDuplicateAlias
  ELSE NoErr

RECURSIVE validateFrom(_, _, _, _)
validateFrom(servers, i, seen, aliases) ==
  IF i > Len(servers) THEN NoErr
  ELSE LET s == servers[i]
           e == validateServer(s, seen, aliases)
       IN IF e # NoErr THEN e
          ELSE validateFrom(servers, i + 1, seen \cup {s.name},
                            aliases \cup {IF s.alias = "" THEN s.name ELSE s.alias})

\* validate: the first error in the order of cfg.Servers, or nil
validate(servers) == validateFrom(servers, 1, {}, {})

\* the index of the first server named name, or 0
IndexOfName(servers, name) ==
  IF \E i \in 1..Len(servers) : servers[i].name = name
    THEN CHOOSE i \in 1..Len(servers) :
           /\ servers[i].name = name
           /\ \A j \in 1..(i - 1) : servers[j].name # name
    ELSE 0

\* UpsertServer's item: transport normalized (http when unsupported), alias defaulted
upsertItem(item) ==
  [item EXCEPT !.transport = IF normalizeTransport(item.transport).err # NoErr THEN "http"
                             ELSE normalizeTransport(item.transport).transport,
               !.alias = IF item.alias = "" THEN item.name ELSE item.alias]

\* UpsertServer: the item replaces the server of its name or is appended
UpsertServer(servers, item) ==
  LET i == IndexOfName(servers, item.name)
  IN IF i > 0 THEN [servers EXCEPT ![i] = upsertItem(item)]
     ELSE Append(servers, upsertItem(item))

\* RemoveServer: the servers without the first one named name
RemoveServer(servers, name) ==
  LET i == IndexOfName(servers, name)
  IN IF i = 0 THEN servers
     ELSE SubSeq(servers, 1, i - 1) \o SubSeq(servers, i + 1, Len(servers))

\* os.ExpandEnv on the strings of the model: HOST is set, UNSET is not
ExpandEnv(v) ==
  CASE v = "$HOST" -> "https://h"
    [] v = "Bearer $HOST" -> "Bearer https://h"
    [] v = "$UNSET" -> ""
    [] v = "KEY=$UNSET" -> "KEY="
    [] OTHER -> v

\* the fields yaml.Marshal omits when empty (omitempty)
OptionalFields == {"alias", "url", "transport", "headers", "command", "env"}

EmptyField(s, k) ==
  CASE k = "headers" -> DOMAIN s.headers = {}
    [] k \in {"command", "env"} -> Len(s[k]) = 0
    [] OTHER -> s[k] = ""

\* a Marshal that loses the headers
MarshalServerNoHeaders(s) ==
  [k \in {"name"} \cup {f \in OptionalFields \ {"headers"} : ~EmptyField(s, f)} |-> s[k]]

\* yaml.Marshal of one MCPServer: the mapping of its non-empty fields
MarshalServer(s) ==
  [k \in {"name"} \cup {f \in OptionalFields : ~EmptyField(s, f)} |-> s[k]]

\* the decoder's MCPServer for one mapping: zero values for the absent keys
UnmarshalServer(d) ==
  [name |-> d["name"],
   alias |-> IF "alias" \in DOMAIN d THEN d["alias"] ELSE "",
   url |-> IF "url" \in DOMAIN d THEN d["url"] ELSE "",
   transport |-> IF "transport" \in DOMAIN d THEN d["transport"] ELSE "",
   headers |-> IF "headers" \in DOMAIN d THEN d["headers"] ELSE EmptyMap,
   command |-> IF "command" \in DOMAIN d THEN d["command"] ELSE <<>>,
   env |-> IF "env" \in DOMAIN d THEN d["env"] ELSE <<>>]

\* Load's loop body: expansion, transport (kept when unsupported: Load
\* returns the error instead), alias
loadServer(s) ==
  [name |-> s.name,
   alias |-> IF s.alias = "" THEN s.name ELSE s.alias,
   url |-> ExpandEnv(s.url),
   transport |-> IF normalizeTransport(s.transport).err # NoErr THEN s.transport
                 ELSE normalizeTransport(s.transport).transport,
   headers |-> [k \in DOMAIN s.headers |-> ExpandEnv(s.headers[k])],
   command |-> [j \in 1..Len(s.command) |-> ExpandEnv(s.command[j])],
   env |-> [j \in 1..Len(s.env) |-> ExpandEnv(s.env[j])]]

DefaultSocketPath == "/tmp/mcpshim.sock"
DefaultDBPath == "/home/.local/share/mcpshim/mcpshim.db"

\* a Config: the server section and the servers
ZeroConfig == [socket_path |-> "", db_path |-> "", servers |-> <<>>]

\* yaml.Marshal of a Config
Marshal(c) ==
  [corrupt |-> FALSE, socket_path |-> c.socket_path, db_path |-> c.db_path,
   servers |-> [i \in 1..Len(c.servers) |-> MarshalServer(c.servers[i])]]

\* Load of a file (a sequence: empty when the file does not exist)
Load(file) ==
  IF file = <<>> THEN [cfg |-> ZeroConfig, err |-> ErrNotExist]
  ELSE IF file[1].corrupt THEN [cfg |-> ZeroConfig, err |-> ErrYAML]
  ELSE LET decoded == [i \in 1..Len(file[1].servers) |-> UnmarshalServer(file[1].servers[i])]
           loaded == [i \in 1..Len(decoded) |-> loadServer(decoded[i])]
           c == [socket_path |-> IF file[1].socket_path = "" THEN DefaultSocketPath
                                  ELSE file[1].socket_path,
                 db_path |-> IF file[1].db_path = "" THEN DefaultDBPath
                              ELSE file[1].db_path,
                 servers |-> loaded]
       IN IF \E i \in 1..Len(decoded) : normalizeTransport(decoded[i].transport).err # NoErr
            THEN [cfg |-> ZeroConfig, err |-> ErrUnsupportedTransport]
          ELSE IF validate(loaded) # NoErr THEN [cfg |-> ZeroConfig, err |-> validate(loaded)]
          ELSE [cfg |-> c, err |-> NoErr]

\* what the file system may do to Save
FsOutcomes == {"ok", "write fails", "rename fails"}

\* a Save that writes the config path itself and checks the result afterwards
SaveInPlace(files, c, fs) ==
  IF validate(c.servers) # NoErr THEN [files |-> files, err |-> validate(c.servers)]
  ELSE IF fs = "write fails"
    THEN [files |-> [files EXCEPT !.live = <<[Marshal(c) EXCEPT !.corrupt = TRUE]>>],
          err |-> ErrWrite]
  ELSE IF Load(<<Marshal(c)>>).err # NoErr
    THEN [files |-> [files EXCEPT !.live = <<Marshal(c)>>], err |-> ErrResultInvalid]
  ELSE IF fs = "rename fails"
    THEN [files |-> [files EXCEPT !.live = <<Marshal(c)>>], err |-> ErrRename]
  ELSE [files |-> [live |-> <<Marshal(c)>>, tmp |-> <<>>], err |-> NoErr]

\* Save: the files after it and the error it returns
Save(files, c, fs) ==
  IF validate(c.servers) # NoErr THEN [files |-> files, err |-> validate(c.servers)]
  ELSE IF fs = "write fails"
    THEN [files |-> [files EXCEPT !.tmp = <<[Marshal(c) EXCEPT !.corrupt = TRUE]>>],
          err |-> ErrWrite]
  ELSE IF Load(<<Marshal(c)>>).err # NoErr
    THEN [files |-> [files EXCEPT !.tmp = <<>>], err |-> ErrResultInvalid]
  ELSE IF fs = "rename fails"
    THEN [files |-> [files EXCEPT !.tmp = <<>>], err |-> ErrRename]
  ELSE [files |-> [live |-> <<Marshal(c)>>, tmp |-> <<>>], err |-> NoErr]

----------------------------------------------------------------------------
(* Save followed by Load of the same path. *)

\* the servers a saved configuration is built from
ServerInputs ==
  [name : {"a"}, alias : {"", "x"}, url : {"", "https://u", "$HOST", "$UNSET"},
   transport : {"", "streamable-http", "SSE", "stdio", "bogus"},
   headers : {EmptyMap, [Authorization |-> "Bearer $HOST"]},
   command : {<<>>, <<"echo", "$HOST">>}, env : {<<>>, <<"KEY=$UNSET">>}]

SecondServers ==
  [name : {"a", "b"}, alias : {"", "x"}, url : {"https://u"}, transport : {"sse"},
   headers : {EmptyMap}, command : {<<>>}, env : {<<>>}]

ConfigInputs ==
  [socket_path : {"", "/run/mcpshim.sock"}, db_path : {"", "/var/mcpshim.db"},
   servers : {<<>>} \cup {<<s>> : s \in ServerInputs}
               \cup {<<s, u>> : s \in {v \in ServerInputs : v.url = "https://u"},
                                u \in SecondServers}]

\* the engine and the registry at rest
AtRest ==
  /\ cfg = <<>>
  /\ tokens = EmptyMap
  /\ toolCache = EmptyMap
  /\ op = NoOp
  /\ srv = ZeroServer
  /\ queue = <<>>
  /\ acc = <<>>
  /\ direct = Handle0
  /\ oauth = Handle0
  /\ cb = Cb0
  /\ flow = Flow0
  /\ first = NoRet
  /\ ret = NoRet
  /\ out = NoRet
  /\ started = 0
  /\ stats = Stats0
  /\ arr = <<>>
  /\ hd = Hd0
  /\ bg = Bg0
  /\ reg = Reg0

InitRoundTrip ==
  /\ AtRest
  /\ history = <<>>
  /\ pc = "save"
  /\ req \in [action : {"save"}, config : ConfigInputs]
  /\ disk = NoFiles
  /\ resp = <<>>

\* Save(path, cfg)
SaveStep ==
  /\ pc = "save"
  /\ \E fs \in FsOutcomes :
       /\ disk' = Save(disk, req.config, fs).files
       /\ resp' = <<[op |-> "save", cfg |-> req.config, err |-> Save(disk, req.config, fs).err]>>
  /\ pc' = "load"
  /\ UNCHANGED <<cfg, tokens, toolCache, history, op, srv, queue, acc, direct, oauth,
                 cb, flow, first, ret, out, started, stats, arr, req, hd, bg, reg>>

\* Load(path)
LoadStep ==
  /\ pc = "load"
  /\ resp' = Append(resp, [op |-> "load", cfg |-> Load(disk.live).cfg,
                           err |-> Load(disk.live).err])
  /\ pc' = "loaded"
  /\ UNCHANGED <<cfg, tokens, toolCache, history, op, srv, queue, acc, direct, oauth,
                 cb, flow, first, ret, out, started, stats, arr, disk, req, hd, bg, reg>>

NextRoundTrip == SaveStep \/ LoadStep

SpecRoundTrip == InitRoundTrip /\ [][NextRoundTrip]_vars

----------------------------------------------------------------------------
(* The daemon: the config actions and `status` of Server.handle, the       *)
(* Refresh each of them runs, and the Refresh of the ticker goroutine.      *)

MaxRequests == 2

\* the config of the daemon for a list of servers
withServers(servers) ==
  [socket_path |-> "/run/mcpshim.sock", db_path |-> "/var/mcpshim.db", servers |-> servers]

ServerA ==
  [name |-> "a", alias |-> "a", url |-> "https://a", transport |-> "http",
   headers |-> EmptyMap, command |-> <<>>, env |-> <<>>]
ServerB ==
  [name |-> "b", alias |-> "b", url |-> "https://b", transport |-> "sse",
   headers |-> EmptyMap, command |-> <<>>, env |-> <<>>]

\* the configs LoadOrInit may return at startup
StartConfigs == {<<>>, <<ServerA>>, <<ServerA, ServerB>>}

\* the add_server requests: name, alias, url, transport, headers, command, env
AddRequests ==
  { [ServerA EXCEPT !.alias = "", !.transport = "bogus", !.url = "https://a2"],
    [ServerB EXCEPT !.alias = "", !.transport = "STDIO", !.url = "", !.command = <<"echo">>],
    [ServerB EXCEPT !.alias = "a"],
    [ServerB EXCEPT !.name = ""],
    [ServerB EXCEPT !.transport = "stdio ", !.url = ""],
    [ServerB EXCEPT !.transport = "", !.url = ""],
    [ServerB EXCEPT !.transport = "http", !.url = "$UNSET"] }

RemoveNames == {"", "a", "b"}

AuthRequests ==
  {[ZeroServer EXCEPT !.name = n, !.headers = [Authorization |-> "Bearer t"]] :
     n \in {"", "a", "c"}}

\* what the user may have put at the config path before a reload
FileEdits ==
  { <<Marshal(withServers(<<[ServerB EXCEPT !.alias = "", !.transport = "streamable-http"],
                            [ServerA EXCEPT !.transport = "SSE", !.url = "$HOST"]>>))>>,
    <<Marshal(withServers(<<ServerA, [ServerB EXCEPT !.alias = "a"]>>))>>,
    <<[Marshal(withServers(<<ServerA>>)) EXCEPT !.corrupt = TRUE]>> }

\* the tools a server lists when its listing succeeds
ToolsOf(name) == IF name = "a" THEN <<"search">> ELSE <<"fetch", "list">>

\* a ToolCount that counts the servers of the cache
ToolCountEntries(cache) == Cardinality(DOMAIN cache)

RECURSIVE SumLen(_, _)
SumLen(cache, keys) ==
  IF keys = {} THEN 0
  ELSE LET k == CHOOSE x \in keys : TRUE
       IN Len(cache[k]) + SumLen(cache, keys \ {k})

\* Registry.ToolCount: the sum of the lengths of the cached lists
ToolCount(cache) == SumLen(cache, DOMAIN cache)

\* cache[name] = tools
put(cache, name, tools) ==
  [k \in DOMAIN cache \cup {name} |-> IF k = name THEN tools ELSE cache[k]]

\* Refresh up to its loop: cfg := r.cfg, an empty local cache
refreshStart(n) ==
  [pc |-> "fetch", live |-> TRUE, snap |-> <<>>, i |-> 0, n |-> n,
   cache |-> EmptyMap, log |-> <<>>]

\* a Refresh that gives up at the first failing server
refreshFetchAbort(it, s, ok) ==
  [it EXCEPT !.i = IF ok THEN it.i + 1 ELSE it.n,
             !.cache = IF ok THEN put(it.cache, s.name, ToolsOf(s.name)) ELSE it.cache,
             !.log = Append(it.log, [name |-> s.name, ok |-> ok])]

\* one iteration of Refresh's loop over server s, whose listing succeeds or not
refreshFetch(it, s, ok) ==
  [it EXCEPT !.i = it.i + 1,
             !.cache = IF ok THEN put(it.cache, s.name, ToolsOf(s.name)) ELSE it.cache,
             !.log = Append(it.log, [name |-> s.name, ok |-> ok])]

\* the slice element the loop of a running Refresh reads next
element(it) == IF it.live THEN arr[it.i + 1] ELSE it.snap[it.i + 1]

\* a running Refresh whose slice no longer shares the server's backing array
detached(it, frozen) ==
  IF frozen /\ it.live THEN [it EXCEPT !.live = FALSE, !.snap = arr] ELSE it

\* LoadOrInit, New, and Run up to its first Refresh
InitDaemon ==
  /\ tokens = EmptyMap
  /\ history = <<>>
  /\ pc = "serve"
  /\ op = NoOp
  /\ srv = ZeroServer
  /\ queue = <<>>
  /\ acc = <<>>
  /\ direct = Handle0
  /\ oauth = Handle0
  /\ cb = Cb0
  /\ flow = Flow0
  /\ first = NoRet
  /\ ret = NoRet
  /\ out = NoRet
  /\ started = 0
  /\ stats = Stats0
  /\ cfg \in StartConfigs
  /\ arr = cfg
  /\ disk = [live |-> <<Marshal(withServers(cfg))>>, tmp |-> <<>>]
  /\ toolCache = EmptyMap
  /\ req = [action |-> "start", n |-> 0, item |-> ZeroServer]
  /\ resp = <<>>
  /\ hd = refreshStart(Len(cfg))
  /\ bg = Bg0
  /\ reg = Reg0

\* the response of the model: ok, error and, for status, the tool count
Response(ok, error, count) == <<[ok |-> ok, error |-> error, count |-> count]>>

\* a config action that fails before it touches the config
Reject(action, item, error) ==
  /\ req' = [action |-> action, n |-> req.n + 1, item |-> item]
  /\ resp' = Response(FALSE, error, 0)
  /\ UNCHANGED <<cfg, arr, disk, toolCache, hd, bg, reg>>

\* the tail of add_server, remove_server and set_auth once s.cfg was changed
\* in place: Save, and when it succeeds UpdateConfig and, if the action has
\* one, the start of its Refresh
SaveAndUpdate(action, item, servers, array, frozen, refreshes, fs) ==
  LET saved == Save(disk, withServers(servers), fs)
  IN /\ req' = [action |-> action, n |-> req.n + 1, item |-> item]
     /\ cfg' = servers
     /\ arr' = array
     /\ disk' = saved.files
     /\ bg' = detached(bg, frozen)
     /\ IF saved.err # NoErr
          THEN /\ resp' = Response(FALSE, saved.err, 0)
               /\ hd' = Hd0
               /\ UNCHANGED <<toolCache, reg>>
          ELSE /\ toolCache' = EmptyMap
               /\ reg' = [reg EXCEPT !.cleared = TRUE]
               /\ hd' = IF refreshes THEN refreshStart(Len(servers)) ELSE Hd0
               /\ resp' = IF refreshes THEN <<>> ELSE Response(TRUE, "", 0)

\* whether append may move the servers to a new backing array: it cannot
\* when a server is replaced (i > 0) or the array has room left, and the
\* capacity of a full array is not known; only a running Refresh can tell
Reallocations(i) ==
  IF i = 0 /\ Len(arr) = Len(cfg) /\ bg.live THEN BOOLEAN ELSE {FALSE}

\* case "add_server" up to its Refresh
HandleAddServer ==
  /\ pc = "serve" /\ hd.pc = "idle" /\ req.n < MaxRequests
  /\ \E r \in AddRequests :
       LET transport == TrimLower(r.transport)
           item == [r EXCEPT !.transport = transport]
           i == IndexOfName(cfg, r.name)
       IN IF r.name = "" THEN Reject("add_server", r, "name is required")
          ELSE IF transport = "stdio" /\ Len(r.command) = 0
            THEN Reject("add_server", r, "command is required for stdio transport")
          ELSE IF transport # "stdio" /\ r.url = ""
            THEN Reject("add_server", r, "url is required for http/sse transport")
          ELSE \E fs \in FsOutcomes, realloc \in Reallocations(i) :
                 SaveAndUpdate("add_server", r, UpsertServer(cfg, item),
                   IF i > 0 THEN [arr EXCEPT ![i] = upsertItem(item)]
                   ELSE IF Len(arr) > Len(cfg)
                     THEN [arr EXCEPT ![Len(cfg) + 1] = upsertItem(item)]
                   ELSE UpsertServer(cfg, item),
                   realloc, TRUE, fs)
  /\ UNCHANGED engineVars

\* case "remove_server" up to its Refresh
HandleRemoveServer ==
  /\ pc = "serve" /\ hd.pc = "idle" /\ req.n < MaxRequests
  /\ \E name \in RemoveNames :
       LET r == [ZeroServer EXCEPT !.name = name]
       IN IF name = "" THEN Reject("remove_server", r, "name is required")
          ELSE IF IndexOfName(cfg, name) = 0
            THEN Reject("remove_server", r, "server not found")
          ELSE \E fs \in FsOutcomes : SaveAndUpdate("remove_server", r, RemoveServer(cfg, name),
                 RemoveServer(cfg, name) \o SubSeq(arr, Len(cfg), Len(arr)),
                 FALSE, TRUE, fs)
  /\ UNCHANGED engineVars

\* case "set_auth"
HandleSetAuth ==
  /\ pc = "serve" /\ hd.pc = "idle" /\ req.n < MaxRequests
  /\ \E r \in AuthRequests :
       LET i == IndexOfName(cfg, r.name)
           merged == [k \in DOMAIN cfg[i].headers \cup DOMAIN r.headers |->
                        IF k \in DOMAIN r.headers THEN r.headers[k] ELSE cfg[i].headers[k]]
       IN IF r.name = "" THEN Reject("set_auth", r, "name is required")
          ELSE IF i = 0 THEN Reject("set_auth", r, "server not found")
          ELSE \E fs \in FsOutcomes : SaveAndUpdate("set_auth", r, [cfg EXCEPT ![i].headers = merged],
                 [arr EXCEPT ![i].headers = merged], FALSE, FALSE, fs)
  /\ UNCHANGED engineVars

\* case "reload" up to its Refresh (the database path is the same), of the
\* file as the last Save left it or as the user edited it since
HandleReload ==
  /\ pc = "serve" /\ hd.pc = "idle" /\ req.n < MaxRequests
  /\ \E file \in FileEdits \cup {disk.live} :
       LET loaded == Load(file)
       IN /\ disk' = [disk EXCEPT !.live = file]
          /\ req' = [action |-> "reload", n |-> req.n + 1, item |-> ZeroServer]
          /\ IF loaded.err # NoErr
               THEN /\ resp' = Response(FALSE, loaded.err, 0)
                    /\ UNCHANGED <<cfg, arr, toolCache, hd, bg, reg>>
               ELSE /\ cfg' = loaded.cfg.servers
                    /\ arr' = loaded.cfg.servers
                    /\ bg' = detached(bg, TRUE)
                    /\ toolCache' = EmptyMap
                    /\ reg' = [reg EXCEPT !.cleared = TRUE]
                    /\ hd' = refreshStart(Len(loaded.cfg.servers))
                    /\ resp' = <<>>
  /\ UNCHANGED engineVars

\* one iteration of the loop of the Refresh the handler (or Run) called
HandlerFetch ==
  /\ hd.pc = "fetch" /\ hd.i < hd.n
  /\ \E ok \in BOOLEAN : hd' = refreshFetch(hd, element(hd), ok)
  /\ UNCHANGED <<cfg, arr, disk, toolCache, req, resp, bg, reg>>
  /\ UNCHANGED engineVars

\* the end of that Refresh, and the handler's response
HandlerRespond ==
  /\ hd.pc = "fetch" /\ hd.i >= hd.n
  /\ toolCache' = hd.cache
  /\ reg' = [byRefresh |-> hd.cache, log |-> hd.log, err |-> NoErr, cleared |-> FALSE]
  /\ hd' = Hd0
  /\ resp' = IF req.action = "start" THEN <<>> ELSE Response(TRUE, "", 0)
  /\ UNCHANGED <<cfg, arr, disk, req, bg>>
  /\ UNCHANGED engineVars

\* the ticker fires: the goroutine's Refresh reads r.cfg
Tick ==
  /\ bg.pc = "idle"
  /\ ~(req.action = "start" /\ hd.pc # "idle")
  /\ bg' = refreshStart(Len(cfg))
  /\ UNCHANGED <<cfg, arr, disk, toolCache, req, resp, hd, reg>>
  /\ UNCHANGED engineVars

\* one iteration of the loop of the ticker's Refresh
TickFetch ==
  /\ bg.pc = "fetch" /\ bg.i < bg.n
  /\ \E ok \in BOOLEAN : bg' = refreshFetch(bg, element(bg), ok)
  /\ UNCHANGED <<cfg, arr, disk, toolCache, req, resp, hd, reg>>
  /\ UNCHANGED engineVars

\* the end of the ticker's Refresh
TickInstall ==
  /\ bg.pc = "fetch" /\ bg.i >= bg.n
  /\ toolCache' = bg.cache
  /\ reg' = [byRefresh |-> bg.cache, log |-> bg.log, err |-> NoErr, cleared |-> FALSE]
  /\ bg' = Bg0
  /\ UNCHANGED <<cfg, arr, disk, req, resp, hd>>
  /\ UNCHANGED engineVars

\* case "status": the tool count of the response
HandleStatus ==
  /\ pc = "serve" /\ hd.pc = "idle" /\ req.n < MaxRequests
  /\ req' = [action |-> "status", n |-> req.n + 1, item |-> ZeroServer]
  /\ resp' = Response(TRUE, "", ToolCount(toolCache))
  /\ UNCHANGED <<cfg, arr, disk, toolCache, hd, bg, reg>>
  /\ UNCHANGED engineVars

NextDaemon ==
  \/ HandleAddServer
  \/ HandleRemoveServer
  \/ HandleSetAuth
  \/ HandleReload
  \/ HandlerFetch
  \/ HandlerRespond
  \/ Tick
  \/ TickFetch
  \/ TickInstall
  \/ HandleStatus

SpecDaemon == InitDaemon /\ [][NextDaemon]_vars

\* the Refresh the handler (or Run) called waits for a provider that never
\* answers: its context is context.Background(), which has no deadline, so
\* fetchToolsForServer does not return
HandlerBlocked ==
  /\ hd.pc = "fetch" /\ hd.i < hd.n
  /\ hd' = [hd EXCEPT !.pc = "blocked"]
  /\ UNCHANGED <<cfg, arr, disk, toolCache, req, resp, bg, reg>>
  /\ UNCHANGED engineVars

NextHanging ==
  \/ HandleAddServer
  \/ HandleRemoveServer
  \/ HandleSetAuth
  \/ HandleReload
  \/ HandlerFetch
  \/ HandlerBlocked
  \/ HandlerRespond
  \/ Tick
  \/ TickFetch
  \/ TickInstall
  \/ HandleStatus

\* the daemon with providers that may hang; a handler that can take a step
\* takes it
FairSpecDaemon ==
  /\ InitDaemon
  /\ [][NextHanging]_vars
  /\ WF_vars(HandlerFetch \/ HandlerBlocked)
  /\ WF_vars(HandlerRespond)

----------------------------------------------------------------------------
(* The `history` action: Server.handle and Store.ListHistory. *)

DefaultHistoryLimit == 50
MaxHistoryLimit == 500

\* the i-th row of call_history; rows are told apart by `at`
HistoryRow(i) ==
  [at |-> i,
   server |-> IF i % 10 = 0 THEN "github" ELSE "notion",
   tool |-> IF i % 10 = 5 THEN "fetch" ELSE "search",
   success |-> TRUE, error |-> "", duration_ms |-> 0]

\* the sizes of the tables a history request may find
TableSizes == {0, 1, 3, 60, 700}

\* the limits of the requests; 0 is the limit of a request that gives none
HistoryLimits == {-1, 0, 1, 2, 50, 51, 500, 501, 700}

HistoryRequests ==
  [action : {"history"}, server : {"", "notion", "github", "none"},
   tool : {"", "search", "fetch"}, limit : HistoryLimits]

\* WHERE server = ? AND tool = ?, each only for a non-empty filter
matches(row, serverFilter, toolFilter) ==
  /\ serverFilter # "" => row.server = serverFilter
  /\ toolFilter # "" => row.tool = toolFilter

\* a ListHistory without the upper limit
ListHistoryUnclamped(rows, serverFilter, toolFilter, limit) ==
  LET l == IF limit <= 0 THEN DefaultHistoryLimit ELSE limit
      matching == SelectSeq(rows, LAMBDA r : matches(r, serverFilter, toolFilter))
      n == IF Len(matching) < l THEN Len(matching) ELSE l
      selected == [j \in 1..n |-> matching[Len(matching) - j + 1]]
  IN [j \in 1..n |-> selected[n - j + 1]]

\* Store.ListHistory: the limit, the query (ORDER BY id DESC LIMIT ?), and
\* the reversal of the rows read
ListHistory(rows, serverFilter, toolFilter, limit) ==
  LET l == IF limit <= 0 THEN DefaultHistoryLimit
           ELSE IF limit > MaxHistoryLimit THEN MaxHistoryLimit ELSE limit
      matching == SelectSeq(rows, LAMBDA r : matches(r, serverFilter, toolFilter))
      n == IF Len(matching) < l THEN Len(matching) ELSE l
      selected == [j \in 1..n |-> matching[Len(matching) - j + 1]]
  IN [j \in 1..n |-> selected[n - j + 1]]

InitHistory ==
  /\ AtRest
  /\ pc = "history"
  /\ \E size \in TableSizes : history = [i \in 1..size |-> HistoryRow(i)]
  /\ req \in HistoryRequests
  /\ disk = NoFiles
  /\ resp = <<>>

\* case "history": the handler's default limit, ListHistory, and the response
HandleHistory ==
  /\ pc = "history"
  /\ \E dbOk \in BOOLEAN :
       LET limit == IF req.limit <= 0 THEN DefaultHistoryLimit ELSE req.limit
       IN resp' = IF dbOk
                    THEN <<[ok |-> TRUE, error |-> "",
                            history |-> ListHistory(history, req.server, req.tool, limit)]>>
                    ELSE <<[ok |-> FALSE, error |-> "list history", history |-> <<>>]>>
  /\ pc' = "listed"
  /\ UNCHANGED <<cfg, tokens, toolCache, history, op, srv, queue, acc, direct, oauth,
                 cb, flow, first, ret, out, started, stats, arr, disk, req, hd, bg, reg>>

SpecHistory == InitHistory /\ [][HandleHistory]_vars

----------------------------------------------------------------------------
(* Connections: Run's accept loop and shutdown, handleConn, and the dispatch
   of Server.handle for the actions that answer without a registry
   operation. *)

\* the connections a behaviour accepts
Conns == {1, 2}

\* a server that has headers of its own
ServerH ==
  [ServerA EXCEPT !.headers = [k \in {"Authorization", "Accept"} |->
                                 IF k = "Accept" THEN "json" ELSE "Bearer old"]]

\* the configs the daemon may be serving
ConnConfigs == {<<ServerH, Local>>, <<Local, ServerB>>}

\* the actions of Server.handle's switch
Actions ==
  {"status", "servers", "tools", "history", "inspect", "call", "add_server",
   "remove_server", "set_auth", "reload", "login"}

\* protocol.Request, the fields these actions read
ZeroRequest ==
  [action |-> "", name |-> "", server |-> "", tool |-> "", limit |-> 0,
   headers |-> EmptyMap]

\* the requests a client may send: the actions that answer at once, the
\* others with the field missing that makes them answer at once, and actions
\* the switch does not know
ConnRequests ==
  {[ZeroRequest EXCEPT !.action = a] :
     a \in {"status", "servers", "history", "inspect", "login", "", "Status", "restart"}}
  \cup {[ZeroRequest EXCEPT !.action = "set_auth", !.name = n, !.headers = h] :
          n \in {"", "a", "c"},
          h \in {[k \in {"Authorization"} |-> "Bearer t"],
                 [k \in {"authorization", "X-Key"} |-> "v"]}}

\* a JSON document of the stream: well formed, not JSON, or JSON whose
\* fields have the wrong types
Document(syntax, request) == [syntax |-> syntax, request |-> request]

\* what a client writes before it waits for the answer
Streams ==
  {<<>>, <<Document("invalid", ZeroRequest)>>, <<Document("mistyped", ZeroRequest)>>}
  \cup {<<Document("ok", r)>> : r \in ConnRequests}
  \cup {<<Document("ok", [ZeroRequest EXCEPT !.action = "restart"]),
          Document("ok", [ZeroRequest EXCEPT !.action = "status"])>>}

\* json.Decoder.Decode into a protocol.Request: the first document of the stream
Decode(stream) ==
  IF stream = <<>> THEN [request |-> ZeroRequest, err |-> "EOF"]
  ELSE IF Head(stream).syntax = "invalid"
    THEN [request |-> ZeroRequest, err |-> "invalid character"]
  ELSE IF Head(stream).syntax = "mistyped"
    THEN [request |-> ZeroRequest, err |-> "json: cannot unmarshal"]
  ELSE [request |-> Head(stream).request, err |-> NoErr]

\* protocol.Response: ok, error, text, and the status, servers or history
Answer(ok, error, text, body) ==
  [ok |-> ok, error |-> error, text |-> text, body |-> body]

\* Registry.Servers
Servers(servers) ==
  [i \in 1..Len(servers) |->
     [name |-> servers[i].name, alias |-> servers[i].alias, url |-> servers[i].url,
      transport |-> servers[i].transport,
      has_auth |-> hasAuthorizationHeader(servers[i].headers)]]

\* a switch that compares the action whatever its case
handleAnyCase(r, servers, cache, files, rows, open, fs) ==
  [cfg |-> servers, toolCache |-> cache, disk |-> files,
   resp |-> IF r.action \in {"status", "Status"}
              THEN Answer(TRUE, "", "",
                     <<[server_count |-> Len(servers), tool_count |-> ToolCount(cache)]>>)
              ELSE Answer(FALSE, "unknown action", "", <<>>)]

\* a set_auth that replaces the headers of the server by the request's
setAuthReplace(old, new) == new

\* case "set_auth", the loop over the keys of req.Headers
setAuthMerge(old, new) ==
  [k \in DOMAIN old \cup DOMAIN new |-> IF k \in DOMAIN new THEN new[k] ELSE old[k]]

\* Server.handle on a request r: the config, tool cache and files it leaves
\* and its response. The store is open or closed, and fs is what the file
\* system does to a Save
handle(r, servers, cache, files, rows, open, fs) ==
  LET same(a) == [cfg |-> servers, toolCache |-> cache, disk |-> files, resp |-> a]
      i == IndexOfName(servers, r.name)
      updated == [servers EXCEPT ![i].headers = setAuthMerge(servers[i].headers, r.headers)]
      saved == Save(files, withServers(updated), fs)
  IN CASE r.action = "status" ->
            same(Answer(TRUE, "", "",
                   <<[server_count |-> Len(servers), tool_count |-> ToolCount(cache)]>>))
       [] r.action = "servers" -> same(Answer(TRUE, "", "", Servers(servers)))
       [] r.action = "history" ->
            IF open
              THEN same(Answer(TRUE, "", "",
                     ListHistory(rows, r.server, r.tool,
                                 IF r.limit <= 0 THEN DefaultHistoryLimit ELSE r.limit)))
              ELSE same(Answer(FALSE, "sql: database is closed", "", <<>>))
       [] r.action \in {"inspect", "call"} /\ (r.server = "" \/ r.tool = "") ->
            same(Answer(FALSE, "server and tool are required", "", <<>>))
       [] r.action = "login" /\ r.server = "" ->
            same(Answer(FALSE, "server is required", "", <<>>))
       [] r.action = "set_auth" ->
            IF r.name = "" THEN same(Answer(FALSE, "name is required", "", <<>>))
            ELSE IF i = 0 THEN same(Answer(FALSE, "server not found", "", <<>>))
            ELSE IF saved.err # NoErr
              THEN [cfg |-> updated, toolCache |-> cache, disk |-> saved.files,
                    resp |-> Answer(FALSE, saved.err, "", <<>>)]
            ELSE [cfg |-> updated, toolCache |-> EmptyMap, disk |-> saved.files,
                  resp |-> Answer(TRUE, "", "updated authentication", <<>>)]
       [] r.action \notin Actions -> same(Answer(FALSE, "unknown action", "", <<>>))

\* a connection not accepted yet. An accepted one holds what its client wrote,
\* the number of documents handleConn decoded, and handleConn's req
NoConn == [pc |-> "none", stream |-> <<>>, reads |-> 0, request |-> ZeroRequest]

\* what the decoder of a connection has not consumed
unread(conn) == SubSeq(conn.stream, conn.reads + 1, Len(conn.stream))

\* a handleConn that answers the request read last on any connection
receivedLast(table, c) ==
  LET readers == {b \in DOMAIN table : table[b].pc \in {"read", "closed"} /\ table[b].reads > 0}
  IN table[CHOOSE b \in readers : \A a \in readers : a <= b].request

\* handleConn's local req
received(table, c) == table[c].request

\* whether Run's store is still open: its deferred Close runs when Run returns
StoreOpen == pc \in {"serve", "signalled", "stopping"}

\* New and Run up to the accept loop, with a cache an earlier Refresh installed
InitConn ==
  /\ tokens = EmptyMap
  /\ history = <<HistoryRow(1)>>
  /\ pc = "serve"
  /\ op = NoOp
  /\ srv = ZeroServer
  /\ queue = <<>>
  /\ acc = <<>>
  /\ direct = Handle0
  /\ oauth = Handle0
  /\ cb = Cb0
  /\ flow = Flow0
  /\ first = NoRet
  /\ ret = NoRet
  /\ out = NoRet
  /\ started = 0
  /\ stats = Stats0
  /\ cfg \in ConnConfigs
  /\ arr = cfg
  /\ disk = [live |-> <<Marshal(withServers(cfg))>>, tmp |-> <<>>]
  /\ toolCache = [n \in {"local"} |-> <<"echo">>]
  /\ req = [c \in Conns |-> NoConn]
  /\ resp = [c \in Conns |-> <<>>]
  /\ hd = Hd0
  /\ bg = Bg0
  /\ reg = Reg0

\* what the connections leave alone
connRest == <<op, srv, queue, acc, direct, oauth, cb, flow, first, ret, out, started,
              stats, hd, bg, reg>>

\* ln.Accept returns a connection and Run starts its handleConn
Accept ==
  /\ pc \in {"serve", "signalled"}
  /\ \E c \in Conns, stream \in Streams :
       /\ req[c].pc = "none"
       /\ \A b \in Conns : b < c => req[b].pc # "none"
       /\ req' = [req EXCEPT ![c] = [NoConn EXCEPT !.pc = "accepted", !.stream = stream]]
  /\ UNCHANGED <<cfg, arr, disk, toolCache, history, tokens, pc, resp>>
  /\ UNCHANGED connRest

\* handleConn up to its Decode, and the rest of it when Decode fails
ReadRequest ==
  /\ pc # "exited"
  /\ \E c \in Conns :
       LET d == Decode(unread(req[c]))
       IN /\ req[c].pc = "accepted"
          /\ req' = [req EXCEPT ![c].reads = @ + 1,
                                ![c].request = d.request,
                                ![c].pc = IF d.err = NoErr THEN "read" ELSE "closed"]
          /\ resp' = IF d.err = NoErr THEN resp
                     ELSE [resp EXCEPT ![c] = Append(@, Answer(FALSE, d.err, "", <<>>))]
  /\ UNCHANGED <<cfg, arr, disk, toolCache, history, tokens, pc>>
  /\ UNCHANGED connRest

\* the rest of handleConn: handle, Encode, Flush, and the deferred conn.Close
Respond ==
  /\ pc # "exited"
  /\ \E c \in Conns, fs \in FsOutcomes :
       LET h == handle(received(req, c), cfg, toolCache, disk, history, StoreOpen, fs)
       IN /\ req[c].pc = "read"
          /\ cfg' = h.cfg
          /\ arr' = h.cfg
          /\ toolCache' = h.toolCache
          /\ disk' = h.disk
          /\ resp' = [resp EXCEPT ![c] = Append(@, h.resp)]
          /\ req' = [req EXCEPT ![c].pc = "closed"]
  /\ UNCHANGED <<history, tokens, pc>>
  /\ UNCHANGED connRest

\* SIGTERM or SIGINT: the context of signal.NotifyContext is done
Signal ==
  /\ pc = "serve"
  /\ pc' = "signalled"
  /\ UNCHANGED <<cfg, arr, disk, toolCache, history, tokens, req, resp>>
  /\ UNCHANGED connRest

\* the goroutine that waits for ctx.Done closes the listener
CloseListener ==
  /\ pc = "signalled"
  /\ pc' = "stopping"
  /\ UNCHANGED <<cfg, arr, disk, toolCache, history, tokens, req, resp>>
  /\ UNCHANGED connRest

\* Accept fails on the closed listener and Run returns nil: the deferred
\* store.Close runs
RunReturns ==
  /\ pc = "stopping"
  /\ pc' = "returned"
  /\ UNCHANGED <<cfg, arr, disk, toolCache, history, tokens, req, resp>>
  /\ UNCHANGED connRest

\* main returns after Run: the process ends, and with it the handleConn
\* goroutines that have not returned
Exit ==
  /\ pc = "returned"
  /\ pc' = "exited"
  /\ req' = [c \in Conns |->
               IF req[c].pc \in {"accepted", "read"} THEN [req[c] EXCEPT !.pc = "killed"]
               ELSE req[c]]
  /\ UNCHANGED <<cfg, arr, disk, toolCache, history, tokens, resp>>
  /\ UNCHANGED connRest

NextConn ==
  \/ Accept
  \/ ReadRequest
  \/ Respond
  \/ Signal
  \/ CloseListener
  \/ RunReturns
  \/ Exit

SpecConn == InitConn /\ [][NextConn]_vars

----------------------------------------------------------------------------
(* The token store: the oauth_tokens table, Store.GetToken, Store.SaveToken
   and the sqliteTokenStore of each server. *)

TokenServers == {"a", "b"}

\* client.Token: the access token and the refresh token
Tokens == [access_token : {"", "t1", "t2"}, refresh_token : {"", "r"}]

ErrCanceled == "context canceled"
ErrTokenRequired == "token is required"
ErrSaveToken == "save token"
ErrGetToken == "get token"
ErrStoreMissing == "sqlite store is not available"

\* json.Marshal of a token: its members, refresh_token left out when empty
tokenJSON(t) ==
  <<<<"access_token", t.access_token>>>>
  \o (IF t.refresh_token = "" THEN <<>> ELSE <<<<"refresh_token", t.refresh_token>>>>)

\* the value of a member of a JSON object, "" when it has none
member(json, key) ==
  IF \E i \in 1..Len(json) : json[i][1] = key
    THEN json[CHOOSE i \in 1..Len(json) : json[i][1] = key][2]
    ELSE ""

\* json.Unmarshal into a token
parseToken(json) ==
  [access_token |-> member(json, "access_token"),
   refresh_token |-> member(json, "refresh_token")]

\* the rows of oauth_tokens for a server
rowsOf(rows, server) == SelectSeq(rows, LAMBDA r : r.server = server)

\* Store.GetToken: the token as a list of at most one, and the error
GetToken(rows, server, dbOk) ==
  IF ~dbOk THEN [token |-> <<>>, err |-> ErrGetToken]
  ELSE IF rowsOf(rows, server) = <<>> THEN [token |-> <<>>, err |-> NoErr]
  ELSE IF parseToken(rowsOf(rows, server)[1].token_json).access_token = ""
    THEN [token |-> <<>>, err |-> NoErr]
  ELSE [token |-> <<parseToken(rowsOf(rows, server)[1].token_json)>>, err |-> NoErr]

\* a SaveToken whose INSERT has no ON CONFLICT clause and adds a row each time
SaveTokenInsertOnly(rows, server, token, now, dbOk) ==
  IF token = <<>> THEN [rows |-> rows, err |-> ErrTokenRequired]
  ELSE IF ~dbOk THEN [rows |-> rows, err |-> ErrSaveToken]
  ELSE [rows |-> Append(rows, [server |-> server, token_json |-> tokenJSON(token[1]),
                               updated_at_utc |-> now]),
        err |-> NoErr]

\* Store.SaveToken: INSERT ... ON CONFLICT(server) DO UPDATE
SaveToken(rows, server, token, now, dbOk) ==
  LET row == [server |-> server, token_json |-> tokenJSON(token[1]), updated_at_utc |-> now]
  IN IF token = <<>> THEN [rows |-> rows, err |-> ErrTokenRequired]
     ELSE IF ~dbOk THEN [rows |-> rows, err |-> ErrSaveToken]
     ELSE IF rowsOf(rows, server) # <<>>
       THEN [rows |-> [i \in DOMAIN rows |-> IF rows[i].server = server THEN row ELSE rows[i]],
             err |-> NoErr]
     ELSE [rows |-> Append(rows, row), err |-> NoErr]

\* sqliteTokenStore.GetToken of a server
tokenStoreGet(rows, server, ctxErr, hasStore, dbOk) ==
  IF ctxErr # NoErr THEN [token |-> <<>>, err |-> ctxErr]
  ELSE IF ~hasStore THEN [token |-> <<>>, err |-> NoToken]
  ELSE IF GetToken(rows, server, dbOk).err # NoErr THEN GetToken(rows, server, dbOk)
  ELSE IF GetToken(rows, server, dbOk).token = <<>> THEN [token |-> <<>>, err |-> NoToken]
  ELSE GetToken(rows, server, dbOk)

\* sqliteTokenStore.SaveToken of a server
tokenStoreSave(rows, server, token, ctxErr, hasStore, now, dbOk) ==
  IF ctxErr # NoErr THEN [rows |-> rows, err |-> ctxErr]
  ELSE IF ~hasStore THEN [rows |-> rows, err |-> ErrStoreMissing]
  ELSE SaveToken(rows, server, token, now, dbOk)

\* a registry with or without a store, an empty table, and no token saved yet
InitTokens ==
  /\ cfg = <<>>
  /\ toolCache = EmptyMap
  /\ history = <<>>
  /\ pc = "tokens"
  /\ op = NoOp
  /\ srv = ZeroServer
  /\ queue = <<>>
  /\ acc = <<>>
  /\ direct = Handle0
  /\ oauth = Handle0
  /\ cb = Cb0
  /\ flow = Flow0
  /\ first = NoRet
  /\ ret = NoRet
  /\ out = NoRet
  /\ started = 0
  /\ stats = Stats0
  /\ arr = <<>>
  /\ disk = NoFiles
  /\ hd = Hd0
  /\ bg = Bg0
  /\ reg = Reg0
  /\ tokens = <<>>
  /\ \E hasStore \in BOOLEAN :
       req = [op |-> "none", server |-> "", store |-> hasStore,
              saved |-> [s \in TokenServers |-> <<>>]]
  /\ resp = <<>>

\* what the token store leaves alone
tokenRest == <<cfg, toolCache, history, pc, op, srv, queue, acc, direct, oauth, cb, flow,
               first, ret, out, started, stats, arr, disk, hd, bg, reg>>

\* the library saves a token (or nil) through the token store of a server
TokenSave ==
  /\ \E s \in TokenServers, t \in {<<>>} \cup {<<x>> : x \in Tokens},
        ctxErr \in {NoErr, ErrCanceled}, now \in Clock, dbOk \in BOOLEAN :
       LET r == tokenStoreSave(tokens, s, t, ctxErr, req.store, now, dbOk)
       IN /\ tokens' = r.rows
          /\ resp' = <<[token |-> <<>>, err |-> r.err]>>
          /\ req' = [req EXCEPT !.op = "save", !.server = s,
                                !.saved[s] = IF r.err = NoErr THEN t ELSE @]
  /\ UNCHANGED tokenRest

\* the library asks the token store of a server for its token
TokenGet ==
  /\ \E s \in TokenServers, ctxErr \in {NoErr, ErrCanceled}, dbOk \in BOOLEAN :
       /\ resp' = <<tokenStoreGet(tokens, s, ctxErr, req.store, dbOk)>>
       /\ req' = [req EXCEPT !.op = "get", !.server = s]
  /\ UNCHANGED <<tokens>>
  /\ UNCHANGED tokenRest

NextTokens ==
  \/ TokenSave
  \/ TokenGet

SpecTokens == InitTokens /\ [][NextTokens]_vars

----------------------------------------------------------------------------
(* Tool schemas: parseSchema and parseSchemaDetail. *)

\* byte order of the property names of the model
NameOrder == <<"Query", "filter", "limit", "query">>
NameRank(x) == CHOOSE i \in 1..Len(NameOrder) : NameOrder[i] = x

\* a JSON value of an enum or a const: a string, a number, or null
JSONString(s) == [t |-> "string", s |-> s]
JSONNumber(s) == [t |-> "number", s |-> s]
JSONNull == [t |-> "null", s |-> ""]

\* fmt.Sprintf("%v", v) of a decoded JSON value
formatValue(v) == IF v.t = "null" THEN "<nil>" ELSE v.s

\* the schema of one property: an object whose type is a string, an object
\* whose type is a list of strings, or the boolean schema `true`
StringEntry(type, description, enum, const) ==
  [kind |-> "object", type |-> [kind |-> "string", value |-> type],
   description |-> description, enum |-> enum, const |-> const]

PropertyEntries ==
  { StringEntry("string", "Search query", <<>>, <<>>),
    StringEntry("integer", "Max results", <<JSONNumber("10"), JSONNull>>, <<JSONString("x")>>),
    [StringEntry("", "", <<>>, <<JSONNull>>) EXCEPT !.type = [kind |-> "list", value |-> ""]],
    [StringEntry("", "", <<>>, <<>>) EXCEPT !.kind = "boolean"] }

\* the objects a schema may have as its properties: up to three properties
PropertyObjects ==
  UNION {[names -> PropertyEntries] : names \in SUBSET {"Query", "filter", "limit", "query"} \ {{"Query", "filter", "limit", "query"}}}

\* the member `required` of a schema: absent, a list of strings, or a string
RequiredValues ==
  { [kind |-> "absent", items |-> <<>>],
    [kind |-> "strings", items |-> <<"query">>],
    [kind |-> "strings", items |-> <<"query", "ghost", "query">>],
    [kind |-> "other", items |-> <<>>] }

\* the member `properties` of a schema: absent, an object, or a string
PropertiesValues ==
  { [kind |-> "absent", entries |-> EmptyMap], [kind |-> "other", entries |-> EmptyMap] }
  \cup {[kind |-> "object", entries |-> f] : f \in PropertyObjects}

\* a nil schema
NilSchema ==
  [null |-> TRUE, required |-> [kind |-> "absent", items |-> <<>>],
   properties |-> [kind |-> "absent", entries |-> EmptyMap]]

\* the schemas a provider may give a tool
Schemas ==
  {NilSchema} \cup [null : {FALSE}, required : RequiredValues, properties : PropertiesValues]

\* the required lists InspectTool may pass on
RequiredLists == {<<>>, <<"query">>, <<"limit", "ghost", "query">>}

\* the keys of a map in an order the range over it may give: here descending
RECURSIVE mapKeys(_)
mapKeys(f) ==
  IF DOMAIN f = {} THEN <<>>
  ELSE LET k == CHOOSE x \in DOMAIN f : \A y \in DOMAIN f : NameRank(y) <= NameRank(x)
       IN <<k>> \o mapKeys([y \in DOMAIN f \ {k} |-> f[y]])

RECURSIVE insertString(_, _)
insertString(x, s) ==
  IF s = <<>> THEN <<x>>
  ELSE IF NameRank(x) < NameRank(Head(s)) THEN <<x>> \o s
  ELSE <<Head(s)>> \o insertString(x, Tail(s))

\* a sort that leaves the keys as the range gave them
sortNone(s) == s

\* sort.Strings
RECURSIVE sortStrings(_)
sortStrings(s) == IF s = <<>> THEN <<>> ELSE insertString(Head(s), sortStrings(Tail(s)))

\* whether json.Unmarshal fills parseSchema's inputSchema from the schema:
\* required a list of strings, properties an object, either may be absent
decodes(schema) ==
  /\ schema.required.kind # "other"
  /\ schema.properties.kind # "other"

\* whether json.Unmarshal fills parseSchemaDetail's inputSchema: properties
\* an object of objects whose type is a string (or absent)
decodesDetail(schema) ==
  /\ schema.properties.kind # "other"
  /\ \A k \in DOMAIN schema.properties.entries :
       /\ schema.properties.entries[k].kind = "object"
       /\ schema.properties.entries[k].type.kind = "string"

\* parseSchema: the required list and the sorted property names
parseSchema(schema) ==
  IF ~decodes(schema) THEN [required |-> <<>>, properties |-> <<>>]
  ELSE [required |-> schema.required.items,
        properties |-> sortStrings(mapKeys(schema.properties.entries))]

\* a parseSchemaDetail that takes every property as required
requiredAll(requiredList, k) == TRUE

\* parseSchemaDetail's required[k]
requiredFlag(requiredList, k) == \E i \in 1..Len(requiredList) : requiredList[i] = k

\* parseSchemaDetail: one PropertyDetail per decoded property, sorted by name
parseSchemaDetail(schema, requiredList) ==
  IF ~decodesDetail(schema) THEN <<>>
  ELSE LET keys == sortStrings(mapKeys(schema.properties.entries))
       IN [i \in 1..Len(keys) |->
             LET p == schema.properties.entries[keys[i]]
             IN [name |-> keys[i],
                 type |-> p.type.value,
                 enum |-> [j \in 1..Len(p.enum) |-> formatValue(p.enum[j])],
                 const |-> IF p.const = <<>> THEN ""
                           ELSE IF p.const[1].t = "null" THEN ""
                           ELSE formatValue(p.const[1]),
                 description |-> p.description,
                 required |-> requiredFlag(requiredList, keys[i])]]

\* a schema and a required list, before either function is applied
InitSchema ==
  /\ AtRest
  /\ history = <<>>
  /\ pc = "schema"
  /\ req \in [schema : Schemas, required : RequiredLists]
  /\ disk = NoFiles
  /\ resp = <<>>

\* fetchToolsForServer applies parseSchema to the schema of a tool
ParseSchema ==
  /\ pc = "schema"
  /\ pc' = "parsed"
  /\ resp' = <<[required |-> parseSchema(req.schema).required,
                properties |-> parseSchema(req.schema).properties,
                details |-> <<>>]>>
  /\ UNCHANGED <<cfg, tokens, toolCache, history, op, srv, queue, acc, direct, oauth,
                 cb, flow, first, ret, out, started, stats, arr, disk, req, hd, bg, reg>>

\* InspectTool applies parseSchemaDetail to the schema and a required list
ParseSchemaDetail ==
  /\ pc = "schema"
  /\ pc' = "detailed"
  /\ resp' = <<[required |-> req.required,
                properties |-> <<>>,
                details |-> parseSchemaDetail(req.schema, req.required)]>>
  /\ UNCHANGED <<cfg, tokens, toolCache, history, op, srv, queue, acc, direct, oauth,
                 cb, flow, first, ret, out, started, stats, arr, disk, req, hd, bg, reg>>

NextSchema ==
  \/ ParseSchema
  \/ ParseSchemaDetail

SpecSchema == InitSchema /\ [][NextSchema]_vars

----------------------------------------------------------------------------
(* The callback server of one authorization flow: every request it receives
   (req) and every page it answers (resp), for one Call or Login. *)

\* requests the browser may send to one callback server
MaxDeliveries == 2

CompletionPage == "Authorization complete"

\* a handler that keeps the newest parameters in the channel
sendNewest(c, p) == [c EXCEPT !.hits = @ + 1, !.chan = <<p>>]

\* select { case params <- values: default: } on the channel of capacity one
send(c, p) ==
  [c EXCEPT !.hits = @ + 1, !.chan = IF Len(@) < 1 THEN Append(@, p) ELSE @]

\* the Registry before a Call or a Login on a server that speaks http
InitCallbacks ==
  /\ cfg = <<Notion>>
  /\ tokens \in TokenTables
  /\ toolCache = EmptyMap
  /\ history = <<>>
  /\ pc = "idle"
  /\ op = NoOp
  /\ srv = ZeroServer
  /\ queue = <<>>
  /\ acc = <<>>
  /\ direct = Handle0
  /\ oauth = Handle0
  /\ cb = Cb0
  /\ flow = Flow0
  /\ first = NoRet
  /\ ret = NoRet
  /\ out = NoRet
  /\ started = 0
  /\ stats = Stats0
  /\ resp = <<>>
  /\ arr = cfg
  /\ disk = NoFiles
  /\ req = <<>>
  /\ hd = Hd0
  /\ bg = Bg0
  /\ reg = Reg0

\* the handler of /oauth/callback, whole: the query's parameters, the send
\* that does not block, the completion page
CallbackRequest ==
  /\ cbRunning
  /\ Len(req) < MaxDeliveries
  /\ \E p \in ParamSet :
       /\ cb' = send(cb, p)
       /\ req' = Append(req, p)
  /\ resp' = Append(resp, CompletionPage)
  /\ UNCHANGED <<cfg, tokens, toolCache, history, pc, op, srv, queue, acc, direct,
                 oauth, flow, first, ret, out, started, stats, arr, disk, hd, bg, reg>>

NextCallbacks ==
  \/ Call
  \/ Login
  \/ RunDirect
  \/ OAuthSetup
  \/ RunWrapped
  \/ FlowBegin
  \/ CallbackRequest
  \/ AwaitCallback
  \/ ManualInput
  \/ Rerun

SpecCallbacks == InitCallbacks /\ [][NextCallbacks]_vars

----------------------------------------------------------------------------
(* Server resolution: validate, then findServer on the accepted config. *)

\* servers told apart by their URL, with every name and alias of two letters
ResolveServers ==
  {[ZeroServer EXCEPT !.name = n, !.alias = a, !.url = "https://" \o n, !.transport = "http"] :
     n \in {"a", "b"}, a \in {"", "a", "b", "x"}}

ResolveConfigs ==
  {<<>>} \cup {<<s>> : s \in ResolveServers}
         \cup {<<s, t>> : s \in ResolveServers, t \in ResolveServers}

ResolveQueries == {"a", "b", "x", "nope"}

\* a config as it may have been written, and the query of a request
InitResolve ==
  /\ AtRest
  /\ history = <<>>
  /\ pc = "validate"
  /\ req \in [servers : ResolveConfigs, query : ResolveQueries]
  /\ disk = NoFiles
  /\ resp = <<>>

resolveRest == <<cfg, tokens, toolCache, history, op, srv, queue, acc, direct, oauth,
                 cb, flow, first, ret, out, started, stats, arr, disk, req, hd, bg, reg>>

\* validate(cfg)
Validate ==
  /\ pc = "validate"
  /\ pc' = IF validate(req.servers) = NoErr THEN "accepted" ELSE "refused"
  /\ resp' = <<>>
  /\ UNCHANGED resolveRest

\* findServer(cfg, nameOrAlias) on a config validate accepted
FindServer ==
  /\ pc = "accepted"
  /\ pc' = "found"
  /\ resp' = <<findServer(req.servers, req.query)>>
  /\ UNCHANGED resolveRest

NextResolve ==
  \/ Validate
  \/ FindServer

SpecResolve == InitResolve /\ [][NextResolve]_vars

----------------------------------------------------------------------------
(* The Registry's lock: goroutines running Registry methods on r.mu. *)

\* goroutines: handlers of two connections and the ticker
Routines == {"conn1", "conn2", "ticker"}

\* methods that copy r.cfg and then talk to a provider
SnapshotOps == {"ListTools", "InspectTool", "Call", "Login", "Refresh"}
\* methods that read under the shared lock and return
ReadOps == {"Servers", "ToolCount"}
RegistryMethods == SnapshotOps \cup ReadOps \cup {"UpdateConfig"}

\* the configs r.cfg may point to
LockConfigs == {<<Notion>>, <<Notion, Github>>}

\* sync.RWMutex with nobody in it
Unlocked == [readers |-> {}, writer |-> "none"]

\* a method that keeps the shared lock until it returns
keepShared(mu, g) == mu

\* r.mu.RUnlock()
RUnlock(mu, g) == [mu EXCEPT !.readers = @ \ {g}]

InitLocks ==
  /\ cfg \in LockConfigs
  /\ tokens = EmptyMap
  /\ toolCache = EmptyMap
  /\ history = <<>>
  /\ pc = [g \in Routines |-> "idle"]
  /\ op = [g \in Routines |-> "none"]
  /\ srv = ZeroServer
  /\ queue = <<>>
  /\ acc = [g \in Routines |-> <<>>]
  /\ direct = Handle0
  /\ oauth = Handle0
  /\ cb = Cb0
  /\ flow = Flow0
  /\ first = NoRet
  /\ ret = NoRet
  /\ out = NoRet
  /\ started = 0
  /\ stats = Stats0
  /\ resp = <<>>
  /\ arr = <<>>
  /\ disk = NoFiles
  /\ req = NoReq
  /\ hd = Hd0
  /\ bg = Bg0
  /\ reg = Unlocked

lockRest == <<tokens, history, srv, queue, direct, oauth, cb, flow, first, ret, out,
              started, stats, resp, arr, disk, req, hd, bg>>

\* a goroutine calls a method of the Registry (the ticker calls Refresh only)
Invoke ==
  /\ \E g \in Routines, m \in RegistryMethods :
       /\ pc[g] = "idle"
       /\ g = "ticker" => m = "Refresh"
       /\ op' = [op EXCEPT ![g] = m]
       /\ pc' = [pc EXCEPT ![g] = IF m = "UpdateConfig" THEN "lock" ELSE "rlock"]
       /\ acc' = [acc EXCEPT ![g] = <<>>]
  /\ UNCHANGED <<cfg, toolCache, reg>>
  /\ UNCHANGED lockRest

\* r.mu.RLock()
RLock ==
  /\ \E g \in Routines :
       /\ pc[g] = "rlock"
       /\ reg.writer = "none"
       /\ reg' = [reg EXCEPT !.readers = @ \cup {g}]
       /\ pc' = [pc EXCEPT ![g] = "shared"]
  /\ UNCHANGED <<cfg, toolCache, op, acc>>
  /\ UNCHANGED lockRest

\* cfg := r.cfg; r.mu.RUnlock()
CopyConfig ==
  /\ \E g \in Routines :
       /\ pc[g] = "shared"
       /\ op[g] \in SnapshotOps
       /\ acc' = [acc EXCEPT ![g] = cfg]
       /\ reg' = RUnlock(reg, g)
       /\ pc' = [pc EXCEPT ![g] = "io"]
  /\ UNCHANGED <<cfg, toolCache, op>>
  /\ UNCHANGED lockRest

\* Servers and ToolCount: the body under the lock, the deferred RUnlock
ReadLocked ==
  /\ \E g \in Routines :
       /\ pc[g] = "shared"
       /\ op[g] \in ReadOps
       /\ acc' = [acc EXCEPT ![g] = cfg]
       /\ reg' = [reg EXCEPT !.readers = @ \ {g}]
       /\ pc' = [pc EXCEPT ![g] = "idle"]
  /\ UNCHANGED <<cfg, toolCache, op>>
  /\ UNCHANGED lockRest

\* findServer, then the MCP client methods or the OAuth flow, to their end;
\* Refresh goes on to install its cache
ClientIO ==
  /\ \E g \in Routines :
       /\ pc[g] = "io"
       /\ pc' = [pc EXCEPT ![g] = IF op[g] = "Refresh" THEN "lock" ELSE "idle"]
  /\ UNCHANGED <<cfg, toolCache, op, acc, reg>>
  /\ UNCHANGED lockRest

\* r.mu.Lock()
Lock ==
  /\ \E g \in Routines :
       /\ pc[g] = "lock"
       /\ reg = Unlocked
       /\ reg' = [reg EXCEPT !.writer = g]
       /\ pc' = [pc EXCEPT ![g] = "exclusive"]
  /\ UNCHANGED <<cfg, toolCache, op, acc>>
  /\ UNCHANGED lockRest

\* under the exclusive lock: Refresh installs its cache, UpdateConfig installs
\* a config and empties the cache; r.mu.Unlock()
Install ==
  /\ \E g \in Routines :
       /\ pc[g] = "exclusive"
       /\ IF op[g] = "Refresh"
            THEN /\ toolCache' = [n \in {acc[g][i].name : i \in 1..Len(acc[g])} |-> <<"search">>]
                 /\ cfg' = cfg
            ELSE /\ toolCache' = EmptyMap
                 /\ cfg' \in LockConfigs
       /\ reg' = [reg EXCEPT !.writer = "none"]
       /\ pc' = [pc EXCEPT ![g] = "idle"]
  /\ UNCHANGED <<op, acc>>
  /\ UNCHANGED lockRest

NextLocks ==
  \/ Invoke
  \/ RLock
  \/ CopyConfig
  \/ ReadLocked
  \/ ClientIO
  \/ Lock
  \/ Install

SpecLocks == InitLocks /\ [][NextLocks]_vars

----------------------------------------------------------------------------
(* `reload` with a database path: the store handle of the Server and of its
   Registry, next to a handler of another connection. *)

\* reloads that open a database in one behaviour
MaxReloads == 2

\* db_path values of the config file
DBPaths == {"db1", "db1 ", "db2"}

\* strings.TrimSpace
TrimSpace(p) == IF p = "db1 " THEN "db1" ELSE p

\* no use of a store yet
NoUse == [handle |-> 0, by |-> "none", open |-> TRUE]

\* Run opened the store (handle 1) and built the Registry on it
InitReload ==
  /\ cfg = <<>>
  /\ tokens = EmptyMap
  /\ toolCache = EmptyMap
  /\ history = <<>>
  /\ pc = [reload |-> "idle", handler |-> "idle"]
  /\ op = "none"
  /\ srv = ZeroServer
  /\ queue = <<>>
  /\ acc = 0
  /\ direct = Handle0
  /\ oauth = Handle0
  /\ cb = Cb0
  /\ flow = Flow0
  /\ first = NoRet
  /\ ret = NoRet
  /\ out = NoUse
  /\ started = 0
  /\ stats = Stats0
  /\ resp = <<>>
  /\ arr = <<>>
  /\ disk = NoFiles
  /\ req = [dbPath |-> "db1", next |-> 0]
  /\ hd = Hd0
  /\ bg = Bg0
  /\ reg = [dbPath |-> "db1", store |-> 1, registry |-> 1, open |-> {1}]

reloadRest == <<cfg, tokens, toolCache, history, srv, queue, direct, oauth, cb, flow,
                first, ret, stats, arr, disk, hd, bg>>

\* a call on store handle h by `by`: whether the handle was open
Use(h, by) == [handle |-> h, by |-> by, open |-> h \in reg.open]

\* case "reload": config.Load, the comparison of the paths, store.Open
ReloadOpen ==
  /\ pc.reload = "idle"
  /\ started < MaxReloads
  /\ \E path \in DBPaths, loadOk, openOk \in BOOLEAN :
       IF ~loadOk
         THEN /\ resp' = Response(FALSE, "load failed", 0)
              /\ UNCHANGED <<pc, req, reg, started>>
       ELSE IF TrimSpace(path) = TrimSpace(reg.dbPath)
         THEN /\ pc' = [pc EXCEPT !.reload = "config"]
              /\ req' = [dbPath |-> path, next |-> 0]
              /\ resp' = <<>>
              /\ UNCHANGED <<reg, started>>
       ELSE IF ~openOk
         THEN /\ resp' = Response(FALSE, "open failed", 0)
              /\ UNCHANGED <<pc, req, reg, started>>
       ELSE /\ pc' = [pc EXCEPT !.reload = "opened"]
            /\ started' = started + 1
            /\ req' = [dbPath |-> path, next |-> started + 2]
            /\ reg' = [reg EXCEPT !.open = @ \cup {started + 2}]
            /\ resp' = <<>>
  /\ UNCHANGED <<op, acc, out>>
  /\ UNCHANGED reloadRest

\* if s.store != nil { _ = s.store.Close() }
ReloadClose ==
  /\ pc.reload = "opened"
  /\ reg' = [reg EXCEPT !.open = @ \ {reg.store}]
  /\ pc' = [pc EXCEPT !.reload = "closed"]
  /\ UNCHANGED <<op, acc, out, req, resp, started>>
  /\ UNCHANGED reloadRest

\* s.store = nextStore
ReloadStore ==
  /\ pc.reload = "closed"
  /\ reg' = [reg EXCEPT !.store = req.next]
  /\ pc' = [pc EXCEPT !.reload = "stored"]
  /\ UNCHANGED <<op, acc, out, req, resp, started>>
  /\ UNCHANGED reloadRest

\* s.registry = mcp.NewRegistry(cfg, nextStore)
ReloadRegistry ==
  /\ pc.reload = "stored"
  /\ reg' = [reg EXCEPT !.registry = req.next]
  /\ pc' = [pc EXCEPT !.reload = "config"]
  /\ UNCHANGED <<op, acc, out, req, resp, started>>
  /\ UNCHANGED reloadRest

\* s.cfg = cfg, UpdateConfig, Refresh, the response
ReloadRespond ==
  /\ pc.reload = "config"
  /\ reg' = [reg EXCEPT !.dbPath = req.dbPath]
  /\ pc' = [pc EXCEPT !.reload = "idle"]
  /\ resp' = Response(TRUE, "", 0)
  /\ UNCHANGED <<op, acc, out, req, started>>
  /\ UNCHANGED reloadRest

\* a handler of another connection begins: `history` is about to call
\* s.store.ListHistory; `call` and `login` enter s.registry.Call or Login,
\* which run on that Registry and its store
HandlerBegin ==
  /\ pc.handler = "idle"
  /\ \E action \in {"history", "call", "login"} :
       /\ op' = action
       /\ acc' = IF action = "history" THEN 0 ELSE reg.registry
       /\ pc' = [pc EXCEPT !.handler = IF action = "history" THEN "store" ELSE "registry"]
  /\ UNCHANGED <<out, req, resp, reg, started>>
  /\ UNCHANGED reloadRest

\* sqliteTokenStore.GetToken or SaveToken on the store of the Registry the
\* operation runs on
HandlerToken ==
  /\ pc.handler = "registry"
  /\ out' = Use(acc, "token")
  /\ pc' = [pc EXCEPT !.handler = IF op = "call" THEN "store" ELSE "idle"]
  /\ UNCHANGED <<op, acc, req, resp, reg, started>>
  /\ UNCHANGED reloadRest

\* s.store.ListHistory or s.store.InsertHistory
HandlerStore ==
  /\ pc.handler = "store"
  /\ out' = Use(reg.store, "history")
  /\ pc' = [pc EXCEPT !.handler = "idle"]
  /\ UNCHANGED <<op, acc, req, resp, reg, started>>
  /\ UNCHANGED reloadRest

NextReload ==
  \/ ReloadOpen
  \/ ReloadClose
  \/ ReloadStore
  \/ ReloadRegistry
  \/ ReloadRespond
  \/ HandlerBegin
  \/ HandlerToken
  \/ HandlerStore

SpecReload == InitReload /\ [][NextReload]_vars

----------------------------------------------------------------------------
(* Two connections, each with one mutating action: the handlers run on
   their own goroutines over the one s.cfg and the one path+".tmp". The file
   system does not fail, and each request succeeds when it runs alone. *)

ServerC == [ServerA EXCEPT !.name = "c", !.alias = "c", !.url = "https://c"]
ServerD == [ServerB EXCEPT !.name = "d", !.alias = "d", !.url = "https://d"]

\* the request of each connection; no two touch the same server
Mutations(c) ==
  IF c = 1
    THEN {[action |-> "add_server", item |-> ServerC],
          [action |-> "set_auth",
           item |-> [ServerA EXCEPT !.headers = [Authorization |-> "Bearer t"]]]}
    ELSE {[action |-> "add_server", item |-> ServerD],
          [action |-> "remove_server", item |-> ServerB]}

\* the change of a request to the servers of s.cfg
mutated(servers, r) ==
  CASE r.action = "add_server" -> UpsertServer(servers, r.item)
    [] r.action = "remove_server" -> RemoveServer(servers, r.item.name)
    [] OTHER ->
         LET i == IndexOfName(servers, r.item.name)
         IN [servers EXCEPT ![i].headers = setAuthMerge(@, r.item.headers)]

\* the config holds the change of request r
holds(servers, r) ==
  CASE r.action = "add_server" -> IndexOfName(servers, r.item.name) > 0
    [] r.action = "remove_server" -> IndexOfName(servers, r.item.name) = 0
    [] OTHER ->
         /\ IndexOfName(servers, r.item.name) > 0
         /\ "Authorization" \in DOMAIN servers[IndexOfName(servers, r.item.name)].headers

\* os.WriteFile(path + ".tmp", out, 0o600)
sharedTmp(files, c) == [files EXCEPT !.tmp = <<Marshal(withServers(c))>>]

InitMutators ==
  /\ cfg = <<ServerA, ServerB>>
  /\ tokens = EmptyMap
  /\ toolCache = EmptyMap
  /\ history = <<>>
  /\ pc = [c \in Conns |-> "idle"]
  /\ op = NoOp
  /\ srv = ZeroServer
  /\ queue = <<>>
  /\ acc = <<>>
  /\ direct = Handle0
  /\ oauth = Handle0
  /\ cb = Cb0
  /\ flow = Flow0
  /\ first = NoRet
  /\ ret = NoRet
  /\ out = NoRet
  /\ started = 0
  /\ stats = Stats0
  /\ resp = [c \in Conns |-> <<>>]
  /\ arr = cfg
  /\ disk = [live |-> <<Marshal(withServers(cfg))>>, tmp |-> <<>>]
  /\ req \in [Conns -> UNION {Mutations(c) : c \in Conns}]
  /\ \A c \in Conns : req[c] \in Mutations(c)
  /\ hd = Hd0
  /\ bg = Bg0
  /\ reg = Reg0

mutatorRest == <<tokens, history, op, srv, queue, acc, direct, oauth, cb, flow, first,
                 ret, out, started, stats, req, hd, bg, reg>>

\* the handler up to Save: UpsertServer, RemoveServer or the header loop on s.cfg
MutateInPlace ==
  /\ \E c \in Conns :
       /\ pc[c] = "idle"
       /\ cfg' = mutated(cfg, req[c])
       /\ pc' = [pc EXCEPT ![c] = "save"]
  /\ arr' = cfg'
  /\ UNCHANGED <<disk, toolCache, resp>>
  /\ UNCHANGED mutatorRest

\* Save: validate, yaml.Marshal of s.cfg as it is now, WriteFile of the temp path
SaveWrite ==
  /\ \E c \in Conns :
       /\ pc[c] = "save"
       /\ IF validate(cfg) # NoErr
            THEN /\ resp' = [resp EXCEPT ![c] = Response(FALSE, validate(cfg), 0)]
                 /\ pc' = [pc EXCEPT ![c] = "done"]
                 /\ disk' = disk
            ELSE /\ disk' = sharedTmp(disk, cfg)
                 /\ pc' = [pc EXCEPT ![c] = "written"]
                 /\ resp' = resp
  /\ UNCHANGED <<cfg, arr, toolCache>>
  /\ UNCHANGED mutatorRest

\* Save: Load of the temp path
SaveLoad ==
  /\ \E c \in Conns :
       /\ pc[c] = "written"
       /\ IF Load(disk.tmp).err # NoErr
            THEN /\ resp' = [resp EXCEPT ![c] = Response(FALSE, ErrResultInvalid, 0)]
                 /\ pc' = [pc EXCEPT ![c] = "done"]
                 /\ disk' = [disk EXCEPT !.tmp = <<>>]
            ELSE /\ pc' = [pc EXCEPT ![c] = "loaded"]
                 /\ UNCHANGED <<resp, disk>>
  /\ UNCHANGED <<cfg, arr, toolCache>>
  /\ UNCHANGED mutatorRest

\* Save: os.Rename of the temp path to the config path
SaveRename ==
  /\ \E c \in Conns :
       /\ pc[c] = "loaded"
       /\ IF disk.tmp = <<>>
            THEN /\ resp' = [resp EXCEPT ![c] = Response(FALSE, ErrRename, 0)]
                 /\ pc' = [pc EXCEPT ![c] = "done"]
                 /\ disk' = disk
            ELSE /\ disk' = [live |-> disk.tmp, tmp |-> <<>>]
                 /\ pc' = [pc EXCEPT ![c] = "saved"]
                 /\ resp' = resp
  /\ UNCHANGED <<cfg, arr, toolCache>>
  /\ UNCHANGED mutatorRest

\* after Save: UpdateConfig, the Refresh of add_server and remove_server,
\* the response
MutationRespond ==
  /\ \E c \in Conns :
       /\ pc[c] = "saved"
       /\ toolCache' = IF req[c].action = "set_auth" THEN EmptyMap
                       ELSE [n \in {cfg[i].name : i \in 1..Len(cfg)} |-> ToolsOf(n)]
       /\ resp' = [resp EXCEPT ![c] = Response(TRUE, "", 0)]
       /\ pc' = [pc EXCEPT ![c] = "done"]
  /\ UNCHANGED <<cfg, arr, disk>>
  /\ UNCHANGED mutatorRest

NextMutators ==
  \/ MutateInPlace
  \/ SaveWrite
  \/ SaveLoad
  \/ SaveRename
  \/ MutationRespond

SpecMutators == InitMutators /\ [][NextMutators]_vars

----------------------------------------------------------------------------
(* remove_server and add_server on a daemon whose store holds a token and a
   history row of the server: the handlers, and the Refresh each of them
   runs through the session engine. *)

\* mutating requests the daemon handles in one behaviour
MaxMutations == 2

\* the oauth_tokens row of notion when the daemon starts
StoredToken == "tok"

\* the server as it may be added again: as it was, or at another URL
ReAddItems == {Notion, [Notion EXCEPT !.url = "https://notion2", !.alias = ""]}

InitReAdd ==
  /\ cfg \in {<<Notion>>, <<Notion, Github>>}
  /\ tokens = [s \in {"notion"} |-> StoredToken]
  /\ toolCache = EmptyMap
  /\ history = <<HistoryRow(1)>>
  /\ pc = "idle"
  /\ op = NoOp
  /\ srv = ZeroServer
  /\ queue = <<>>
  /\ acc = <<>>
  /\ direct = Handle0
  /\ oauth = Handle0
  /\ cb = Cb0
  /\ flow = Flow0
  /\ first = NoRet
  /\ ret = NoRet
  /\ out = NoRet
  /\ started = 0
  /\ stats = Stats0
  /\ resp = <<>>
  /\ arr = cfg
  /\ disk = [live |-> <<Marshal(withServers(cfg))>>, tmp |-> <<>>]
  /\ req = [due |-> FALSE, log |-> <<>>]
  /\ hd = Hd0
  /\ bg = Bg0
  /\ reg = Reg0

reAddRest == <<tokens, history, pc, op, srv, queue, acc, direct, oauth, cb, flow,
               first, ret, out, started, stats, hd, bg, reg>>

\* the tail of the two handlers up to their Refresh: s.cfg was changed in
\* place; Save, and when it succeeds UpdateConfig
saveThenUpdate(action, servers, fs) ==
  LET saved == Save(disk, withServers(servers), fs)
  IN /\ cfg' = servers
     /\ arr' = servers
     /\ disk' = saved.files
     /\ IF saved.err # NoErr
          THEN /\ resp' = Response(FALSE, saved.err, 0)
               /\ req' = [req EXCEPT !.log = Append(@, action)]
               /\ toolCache' = toolCache
          ELSE /\ resp' = <<>>
               /\ req' = [due |-> TRUE, log |-> Append(req.log, action)]
               /\ toolCache' = EmptyMap

\* case "remove_server" up to its Refresh: no call on the store
RemoveStoredServer ==
  /\ pc = "idle" /\ ~req.due /\ Len(req.log) < MaxMutations
  /\ \E name \in {"notion", "nope"}, fs \in FsOutcomes :
       IF IndexOfName(cfg, name) = 0
         THEN /\ resp' = Response(FALSE, "server not found", 0)
              /\ req' = [req EXCEPT !.log = Append(@, "not found")]
              /\ UNCHANGED <<cfg, arr, disk, toolCache>>
         ELSE saveThenUpdate("remove_server", RemoveServer(cfg, name), fs)
  /\ UNCHANGED reAddRest

\* case "add_server" up to its Refresh
AddStoredServer ==
  /\ pc = "idle" /\ ~req.due /\ Len(req.log) < MaxMutations
  /\ \E item \in ReAddItems, fs \in FsOutcomes :
       saveThenUpdate("add_server", UpsertServer(cfg, item), fs)
  /\ UNCHANGED reAddRest

\* s.registry.Refresh(context.Background()) of the handler
HandlerRefresh ==
  /\ pc = "idle" /\ req.due
  /\ StartOp([kind |-> "refresh", server |-> "", tool |-> "", manual |-> FALSE,
              via |-> "handler"])
  /\ req' = [req EXCEPT !.due = FALSE]
  /\ UNCHANGED <<cfg, tokens, history, started, stats, resp, arr, disk, hd, bg, reg>>

\* Refresh has returned: the handler's response
HandlerAnswer ==
  /\ pc = "opdone"
  /\ op.via = "handler"
  /\ Forget
  /\ resp' = Response(TRUE, "", 0)
  /\ UNCHANGED <<cfg, tokens, toolCache, history, started, stats>>
  /\ UNCHANGED daemonVars

NextReAdd ==
  \/ RemoveStoredServer
  \/ AddStoredServer
  \/ HandlerRefresh
  \/ RunDirect
  \/ OAuthSetup
  \/ RunWrapped
  \/ IterationStep
  \/ HandlerAnswer

SpecReAdd == InitReAdd /\ [][NextReAdd]_vars

----------------------------------------------------------------------------
(* Properties of the `call` handler (under SpecRouter). *)

\* one when a call is between HandleCall and FinishCall
CallsRunning == IF pc = "idle" THEN 0 ELSE 1

\* C1, as stated: every `call` action the router has handled, whatever its
\* outcome (a missing server or tool included), has written exactly one
\* HistoryItem to the history store.
C1_OneRowPerCallAction ==
  pc = "idle" => Len(history) = stats.handled

\* C1, amended: every `call` action with a server and a tool, whatever
\* Registry.Call returned, has called InsertHistory exactly once, and the
\* history store holds exactly one row for each of these writes that
\* succeeded; a `call` action rejected for a missing server or tool has
\* written nothing.
C1_OneInsertPerAcceptedCall ==
  /\ stats.inserts = stats.handled - stats.rejected - CallsRunning
  /\ Len(history) = stats.inserts - stats.failed
  /\ stats.rejected > 0 /\ stats.handled = stats.rejected => history = <<>>

\* a call that failed (here: on an unknown server) and has its one row
C1_Witness ==
  /\ pc = "idle"
  /\ stats.handled = 1
  /\ stats.inserts = 1
  /\ Len(history) = 1
  /\ history[1].error = ErrUnknownServer

\* C2: the row a `call` action writes has success = TRUE iff Registry.Call
\* returned no error iff the response has ok = TRUE; a failure row's error is
\* the response's error, a success row's error is empty, and duration_ms >= 0.
C2_RowMatchesResponse ==
  [][(pc = "opdone" /\ op.via = "router" /\ Len(history') = Len(history) + 1) =>
       LET row == history'[Len(history')]
           r == resp'[1]
       IN /\ row.success = (out.err = NoErr)
          /\ row.success = r.ok
          /\ ~row.success => row.error = r.error
          /\ row.success => row.error = ""
          /\ row.duration_ms >= 0]_vars

----------------------------------------------------------------------------
(* Properties of the session engine (under Spec, C4 under FairSpec). *)

\* the operations that run runWithOAuthFallback
UsesFallback == op.kind \in {"tools", "toolsAll", "refresh", "inspect", "call"}

\* the first attempt failed, the transport is not stdio, no configured header
\* is named Authorization in any spelling, and the error is the unauthorized one
FallbackCondition ==
  /\ first.err # NoErr
  /\ srv.transport # "stdio"
  /\ DOMAIN srv.headers \cap {"authorization", "Authorization", "AUTHORIZATION"} = {}
  /\ first.err = ErrUnauthorized

\* the engine is past the first attempt, on its OAuth path
OnOAuthPath == pc \in {"setup", "wrapped", "flow", "await", "manual", "rerun"}

\* nothing of the OAuth path has happened
NoOAuthActivity ==
  /\ ~oauth.made
  /\ oauth.starts = 0
  /\ oauth.tokenReads = 0
  /\ cb.starts = 0
  /\ flow = Flow0

\* C3, as stated: runWithOAuthFallback has made an OAuth-wrapped attempt iff
\* the fallback condition holds; otherwise it has returned the first attempt's
\* result and error unchanged, with no OAuth client, callback server or
\* token-store access.
C3_WrappedAttemptIffCondition ==
  UsesFallback /\ pc = "ret" =>
    /\ oauth.starts > 0 <=> FallbackCondition
    /\ ~FallbackCondition => ret = first /\ NoOAuthActivity

\* C3, amended: an OAuth-wrapped attempt is made only if the fallback
\* condition holds; when it holds, the attempt is made unless starting the
\* callback server or constructing the OAuth client fails, and then that
\* error is returned; otherwise the first attempt's result and error are
\* returned unchanged, with no OAuth client, callback server or token-store
\* access.
C3_FallbackIffCondition ==
  UsesFallback =>
    /\ OnOAuthPath \/ oauth.made \/ cb.starts > 0 \/ oauth.tokenReads > 0
         => FallbackCondition
    /\ pc = "ret" /\ FallbackCondition =>
         \/ oauth.starts > 0
         \/ ret.err = ErrListen /\ ~oauth.made /\ cb.starts = 0
         \/ ret.err = ErrNewClient /\ ~oauth.made
    /\ pc = "ret" /\ ~FallbackCondition => ret = first /\ NoOAuthActivity

\* a call whose first attempt was unauthorized and that made its wrapped attempt
C3_Witness ==
  /\ op.kind = "call"
  /\ pc = "ret"
  /\ FallbackCondition
  /\ oauth.starts = 1
  /\ oauth.tokenReads = 1

\* within one runWithOAuthFallback: at most one direct and two wrapped
\* attempts, at most one authorization flow, and a second wrapped attempt only
\* after the flow's exchange, as the last thing the engine did
C4_AttemptsBounded ==
  UsesFallback =>
    /\ direct.starts <= 1
    /\ direct.starts + oauth.starts <= 3
    /\ flow.runs <= 1
    /\ oauth.starts = 2 => flow.exchanges = 1 /\ pc \in {"ret", "opdone"}

\* the step after a successful flow is one more wrapped attempt, and the
\* engine returns that attempt's error whatever it is
C4_RerunIsFinal ==
  pc = "rerun" /\ oauth' # oauth =>
    /\ pc' = "ret"
    /\ oauth'.starts = oauth.starts + 1
    /\ flow' = flow
    /\ ret'.err = oauth'.err

StateCheckPassed ==
  /\ flow.got # <<>>
  /\ IF op.kind = "login" /\ op.manual
       THEN flow.got[1].state \in {"", flow.state}
       ELSE flow.got[1].state = flow.state

\* C5: ProcessAuthorizationResponse is not invoked when the received state
\* differs from the generated one: a callback whose state is absent or
\* unequal ends the flow with "oauth state mismatch"; a pasted URL only when
\* it carries a state, and that state is unequal.
C5_NoExchangeOnStateMismatch ==
  /\ flow.exchanges > 0 => StateCheckPassed
  /\ pc = "ret" /\ flow.got # <<>> /\ ~StateCheckPassed =>
       ret.err = ErrStateMismatch /\ flow.exchanges = 0
  /\ pc = "ret" /\ op.kind = "login" /\ op.manual /\ ret.err = ErrStateMismatch =>
       flow.got # <<>> /\ flow.got[1].state \notin {"", flow.state}

\* a callback with a code and a foreign state ended the flow
C5_Witness ==
  /\ pc = "ret"
  /\ ~(op.kind = "login" /\ op.manual)
  /\ flow.got # <<>>
  /\ flow.got[1].state # flow.state
  /\ flow.got[1].code # ""
  /\ ret.err = ErrStateMismatch

\* C6: parameters that passed the state check and carry a non-empty error end
\* the flow with "oauth authorization failed" and without a code exchange,
\* with or without a code; parameters with neither end it with "oauth
\* authorization did not return a code".
C6_ErrorParameterFailsFlow ==
  StateCheckPassed =>
    /\ flow.got[1].error # "" =>
         /\ flow.exchanges = 0
         /\ pc = "ret" => ret.err = ErrAuthFailed
    /\ flow.got[1].error = "" /\ flow.got[1].code = "" =>
         /\ flow.exchanges = 0
         /\ pc = "ret" => ret.err = ErrNoCode

\* C7: a non-interactive run (Refresh) whose wrapped attempt ended with the
\* authorization-required error returns the advisory error; it never starts
\* a callback server, prints an authorization URL, waits for a callback or
\* writes a token.
C7_RefreshNeverInteracts ==
  op.kind = "refresh" =>
    /\ cb.starts = 0
    /\ flow = Flow0
    /\ pc \notin {"flow", "await", "manual", "rerun"}
    /\ pc = "ret" /\ oauth.starts > 0 /\ oauth.err = ErrAuthorizationRequired =>
         ret.err = ErrAdvisory

\* a Refresh got the advisory error for a server
C7_Witness ==
  /\ op.kind = "refresh"
  /\ pc = "ret"
  /\ oauth.starts = 1
  /\ oauth.err = ErrAuthorizationRequired
  /\ ret.err = ErrAdvisory

OnStdioServer ==
  \E i \in 1..Len(cfg) :
    /\ cfg[i].name = op.server \/ cfg[i].alias = op.server
    /\ cfg[i].transport = "stdio"

\* C9: Login on a stdio server is rejected with an error that mentions
\* stdio: no client is constructed, no callback server started and no token
\* written.
C9_LoginRejectsStdio ==
  op.kind = "login" /\ OnStdioServer =>
    /\ pc = "opdone"
    /\ out.err = "oauth login is not supported for stdio servers"
    /\ ~oauth.made
    /\ ~direct.made
    /\ cb.starts = 0
    /\ flow.exchanges = 0

\* the operation's query is neither the name nor the alias of a server
QueryUnknown ==
  \A i \in 1..Len(cfg) : cfg[i].name # op.server /\ cfg[i].alias # op.server

\* C10: Login, Call, InspectTool and ListTools with a server return "unknown
\* server" when the query is neither a name nor an alias of the
\* configuration, and then construct no client and do no network I/O.
C10_UnknownServerRejected ==
  op.kind \in {"login", "call", "inspect", "tools"} /\ QueryUnknown =>
    /\ pc = "opdone"
    /\ out.err = ErrUnknownServer
    /\ ~direct.made /\ direct.starts = 0
    /\ NoOAuthActivity

\* a Login for a stranger, against a configuration that has servers
C10_Witness ==
  /\ op.kind = "login"
  /\ op.server = "nope"
  /\ cfg # <<>>
  /\ pc = "opdone"
  /\ out.err = ErrUnknownServer

----------------------------------------------------------------------------
(* Properties of newClient (under SpecNewClient). *)

\* C11: newClient on a stdio descriptor whose command is empty or nil
\* returns an error containing "no command configured" and no client
\* handle; it constructs neither an HTTP nor an SSE client for it.
C11_StdioWithoutCommandRejected ==
  pc = "newdone" /\ srv.transport = "stdio" /\ srv.command = <<>> =>
    /\ first.err = "stdio server has no command configured"
    /\ ~direct.made
    /\ direct.kind \notin {"http", "sse"}

----------------------------------------------------------------------------
(* Properties of Save and Load (under SpecRoundTrip). *)

SaveAccepted == pc = "loaded" /\ resp[1].err = NoErr

\* the input after alias defaulting and transport normalization only
aliasAndTransport(s) ==
  [s EXCEPT !.alias = IF s.alias = "" THEN s.name ELSE s.alias,
            !.transport = normalizeTransport(s.transport).transport]

\* C17 as stated: for every configuration Save accepts, Load of the same
\* path yields the input with aliases defaulted and transports normalized,
\* and with url, headers, command and env exactly as given.
C17_RoundTripKeepsValues ==
  SaveAccepted =>
    /\ resp[2].err = NoErr
    /\ resp[2].cfg = [req.config EXCEPT
         !.servers = [i \in 1..Len(req.config.servers) |->
                        aliasAndTransport(req.config.servers[i])]]

\* the input after alias defaulting, transport normalization and
\* environment-variable expansion of url, header values, command and env
expanded(s) ==
  [aliasAndTransport(s) EXCEPT
     !.url = ExpandEnv(s.url),
     !.headers = [k \in DOMAIN s.headers |-> ExpandEnv(s.headers[k])],
     !.command = [j \in 1..Len(s.command) |-> ExpandEnv(s.command[j])],
     !.env = [j \in 1..Len(s.env) |-> ExpandEnv(s.env[j])]]

\* C17 (amended): for every configuration Save accepts, Load of the same
\* path succeeds and yields the input after alias defaulting, transport
\* normalization, defaulting of an empty socket or database path and
\* environment-variable expansion of url, header values, command and env.
C17_RoundTripUpToLoadRewrites ==
  SaveAccepted =>
    /\ resp[2].err = NoErr
    /\ resp[2].cfg =
         [socket_path |-> IF req.config.socket_path = "" THEN DefaultSocketPath
                          ELSE req.config.socket_path,
          db_path |-> IF req.config.db_path = "" THEN DefaultDBPath
                      ELSE req.config.db_path,
          servers |-> [i \in 1..Len(req.config.servers) |-> expanded(req.config.servers[i])]]

\* a saved configuration with a second server, an environment reference,
\* an empty alias and an unnormalized transport
C17_Witness ==
  /\ SaveAccepted
  /\ Len(req.config.servers) = 2
  /\ req.config.servers[1].alias = ""
  /\ req.config.servers[1].transport = "SSE"
  /\ req.config.servers[1].headers # EmptyMap
  /\ resp[2].cfg.servers[1].transport = "sse"

----------------------------------------------------------------------------
(* Properties of the daemon's config actions and of Refresh (under          *)
(* SpecDaemon).                                                             *)

ConfigActions == {"add_server", "remove_server", "set_auth", "reload"}

\* the latest request was a config action and it has responded with ok
ConfigActionSucceeded ==
  /\ hd.pc = "idle"
  /\ req.action \in ConfigActions
  /\ resp # <<>>
  /\ resp[1].ok

ServerNames(servers) == {servers[i].name : i \in 1..Len(servers)}

\* C12: once a successful add_server, remove_server, set_auth or reload has
\* responded, the tool cache holds no entry for a server name that is absent
\* from the current configuration, whatever the ticker's Refresh does.
C12_CacheWithinCurrentConfig ==
  ConfigActionSucceeded => DOMAIN toolCache \subseteq ServerNames(cfg)

\* the number of tools in a cache
CachedTools(cache) ==
  Cardinality(UNION {{<<k, j>> : j \in 1..Len(cache[k])} : k \in DOMAIN cache})

StatusAnswered == req'.action = "status" /\ req'.n = req.n + 1

\* C13 as stated: every ToolCount is the number of tools of the cache that
\* the most recently completed Refresh installed.
C13_ToolCountIsLastRefresh ==
  [][StatusAnswered => resp'[1].count = CachedTools(reg.byRefresh)]_vars

\* C13 (amended): every ToolCount is the number of tools of the cache most
\* recently installed: the one of the last completed Refresh, or the empty
\* one of UpdateConfig when that ran since; while a Refresh is in progress it
\* is the value of that installed cache, never of the one being built.
C13_ToolCountIsInstalledCache ==
  [][StatusAnswered =>
       resp'[1].count = IF reg.cleared THEN 0 ELSE CachedTools(reg.byRefresh)]_vars

\* a status answered while the ticker's Refresh has listed one of two servers
\* and the installed cache holds three tools
C13_Witness ==
  /\ req.action = "status"
  /\ bg.pc = "fetch" /\ bg.i = 1 /\ bg.n = 2
  /\ DOMAIN bg.cache = {"a"}
  /\ resp[1].count = 3

\* the cache a Refresh installs, given where its loop ended
InstalledBy(it, cache, returned) ==
  /\ Len(it.log) = it.n
  /\ DOMAIN cache = {it.log[j].name : j \in {x \in 1..Len(it.log) : it.log[x].ok}}
  /\ \A k \in DOMAIN cache : cache[k] = ToolsOf(k)
  /\ returned = NoErr

\* C14: when a Refresh completes it has listed every server of the slice it
\* ranged over, the cache it installs has an entry for exactly those whose
\* listing succeeded (a failing server contributes none and does not stop the
\* loop), and it returns no error.
C14_RefreshInstallsSuccessfulListings ==
  [][/\ (bg.pc = "fetch" /\ bg'.pc = "idle" => InstalledBy(bg, toolCache', reg'.err))
     /\ (hd.pc = "fetch" /\ hd'.pc = "idle" => InstalledBy(hd, toolCache', reg'.err))]_vars

\* a completed Refresh whose first server failed and whose second succeeded
C14_Witness ==
  /\ ~reg.cleared
  /\ Len(reg.log) = 2
  /\ ~reg.log[1].ok /\ reg.log[2].ok
  /\ DOMAIN toolCache = {reg.log[2].name}

\* the step is the response ok=false of an add_server, remove_server or set_auth
MutationFailed ==
  /\ req'.n = req.n + 1
  /\ req'.action \in {"add_server", "remove_server", "set_auth"}
  /\ resp' # <<>>
  /\ ~resp'[1].ok

WellFormed(servers) ==
  /\ \A i \in 1..Len(servers) :
       /\ servers[i].name # ""
       /\ servers[i].transport \in {"http", "sse", "stdio"}
       /\ servers[i].transport = "stdio" => servers[i].command # <<>>
       /\ servers[i].transport # "stdio" => servers[i].url # ""
  /\ \A i, j \in 1..Len(servers) :
       i # j => /\ servers[i].name # servers[j].name
                /\ servers[i].alias # servers[j].alias

\* the servers a reader of the file finds in it
ServersOnDisk(file) == [i \in 1..Len(file[1].servers) |-> UnmarshalServer(file[1].servers[i])]

\* the step is a config action whose Save, or whose Load, succeeded
Committed ==
  /\ req'.n = req.n + 1
  /\ req'.action \in ConfigActions
  /\ IF resp' = <<>> THEN hd'.pc = "fetch" ELSE resp'[1].ok

\* C16: whatever add_server, remove_server, set_auth and reload actions came
\* before, the configuration a reload's Load returns and the configuration a
\* Save writes to the config path have non-empty unique server names, unique
\* aliases, a transport among http, sse and stdio, a non-empty URL for http
\* and sse servers and a non-empty command for stdio servers.
C16_LoadedAndSavedConfigsWellFormed ==
  [][Committed =>
       IF req'.action = "reload" THEN WellFormed(cfg')
       ELSE ~disk'.live[1].corrupt /\ WellFormed(ServersOnDisk(disk'.live))]_vars

\* a reload of an edited file after another config action: two servers, one
\* with a transport and a URL that Load rewrote
C16_Witness ==
  /\ req.action = "reload" /\ req.n = 2
  /\ resp # <<>>
  /\ resp[1].ok
  /\ Len(cfg) = 2
  /\ cfg[2].transport = "sse"
  /\ cfg[2].url = "https://h"

----------------------------------------------------------------------------
(* The response of `call` and the history write (under SpecRouter). *)

\* C20: the response to a `call` does not depend on the history write: when
\* InsertHistory fails the client receives the ok, result and error it would
\* have received had the write succeeded.
C20_ResponseIgnoresHistoryWrite ==
  [][stats'.failed # stats.failed =>
       resp' = <<finishCall(history, historyItem(op, started, 0, out), out, TRUE).resp>>]_vars

\* a call that succeeded and whose history write failed
C20_Witness ==
  /\ stats.failed = 1
  /\ history = <<>>
  /\ resp # <<>>
  /\ resp[1].ok
  /\ resp[1].result \in CallResults

----------------------------------------------------------------------------
(* Properties of the `history` action (under SpecHistory). *)

HistoryReturned == pc = "listed" /\ resp[1].ok

Returned == resp[1].history

\* C18 as stated: of any two returned rows, the one inserted later appears
\* earlier in the returned list.
C18_MostRecentFirst ==
  HistoryReturned =>
    \A j, k \in 1..Len(Returned) : j < k => Returned[j].at > Returned[k].at

\* the stored rows matching the filters of the request
Matching == {history[i] : i \in {x \in 1..Len(history) : matches(history[x], req.server, req.tool)}}

\* the returned rows are count rows, all match the filters, and no matching
\* row left out was inserted after a returned one
MostRecent(count) ==
  LET rows == {Returned[j] : j \in 1..Len(Returned)}
  IN /\ Len(Returned) = count
     /\ Cardinality(rows) = count
     /\ rows \subseteq Matching
     /\ \A r \in Matching \ rows : \A s \in rows : r.at < s.at

MinOf(a, b) == IF a < b THEN a ELSE b

\* C19 as stated: exactly min(M, L) rows are returned, L being the limit
\* clamped into [1, 500], or 50 when the request gives none; they are the
\* most recently inserted matching rows.
C19_LimitClampedIntoRange ==
  HistoryReturned =>
    MostRecent(MinOf(Cardinality(Matching),
                     IF req.limit = 0 THEN 50
                     ELSE IF req.limit < 1 THEN 1
                     ELSE IF req.limit > 500 THEN 500 ELSE req.limit))

\* C19 (amended): exactly min(M, L) rows are returned, L being the limit when
\* it is in [1, 500], 500 when it is larger, and 50 when the request gives
\* none or gives one below 1; they are the most recently inserted matching
\* rows.
C19_LimitDefaultedAndCapped ==
  HistoryReturned =>
    MostRecent(MinOf(Cardinality(Matching),
                     IF req.limit < 1 THEN 50
                     ELSE IF req.limit > 500 THEN 500 ELSE req.limit))

\* a request with a limit above 500 and filters that more than 500 rows match
C19_Witness ==
  /\ HistoryReturned
  /\ req.limit = 700
  /\ req.server = "notion" /\ req.tool = "search"
  /\ Cardinality(Matching) > 500
  /\ Len(Returned) = 500

----------------------------------------------------------------------------
(* Properties of the connections (under SpecConn). *)

\* what the client of connection c wrote first
FirstDocument(c) == Head(req[c].stream)

\* C21: on every accepted connection handleConn reads at most one request
\* and has written exactly one response when it closes the connection; when
\* what it read is not a well-formed request the response has ok = false and
\* a non-empty error; otherwise the response is the one Server.handle gives
\* for the first request the client wrote on that connection.
C21_OneRequestOneResponse ==
  [][\A c \in Conns :
       /\ req'[c].reads <= 1
       /\ Len(resp'[c]) <= 1
       /\ req'[c].pc = "closed" => Len(resp'[c]) = 1 /\ req'[c].reads = 1
       /\ req[c].pc = "accepted" /\ req'[c].pc = "closed" =>
            /\ req[c].stream = <<>> \/ FirstDocument(c).syntax # "ok"
            /\ ~resp'[c][1].ok
            /\ resp'[c][1].error # ""
       /\ req[c].pc = "accepted" /\ req'[c].pc = "read" =>
            /\ FirstDocument(c).syntax = "ok"
            /\ req'[c].request = FirstDocument(c).request
       /\ req[c].pc = "read" /\ req'[c].pc = "closed" =>
            \E fs \in FsOutcomes :
              resp'[c] = <<handle(FirstDocument(c).request, cfg, toolCache, disk,
                                 history, StoreOpen, fs).resp>>]_vars

\* one connection closed after input that is not JSON, the other after a
\* client wrote two requests and the first was answered
C21_Witness ==
  /\ req[1].pc = "closed"
  /\ req[1].stream # <<>>
  /\ FirstDocument(1).syntax = "invalid"
  /\ req[2].pc = "closed"
  /\ Len(req[2].stream) = 2
  /\ resp[2] = <<Answer(FALSE, "unknown action", "", <<>>)>>

\* C22: a request whose action is not one of the eleven of the switch (the
\* empty action included) is answered {ok: false, error: "unknown action"},
\* and answering it leaves the configuration, the config file, the tool
\* cache, the history and the tokens as they were.
C22_UnknownActionRejected ==
  [][\A c \in Conns :
       (/\ req[c].pc = "read"
        /\ req'[c].pc = "closed"
        /\ req[c].request.action \notin Actions) =>
         /\ resp'[c] = <<Answer(FALSE, "unknown action", "", <<>>)>>
         /\ UNCHANGED <<cfg, disk, toolCache, history, tokens>>]_vars

\* the empty action and an action in the wrong case were answered
C22_Witness ==
  /\ req[1].pc = "closed" /\ req[1].reads = 1 /\ req[1].request.action = ""
  /\ req[2].pc = "closed" /\ req[2].reads = 1 /\ req[2].request.action = "Status"
  /\ resp[1] = resp[2]
  /\ resp[1] # <<>>
  /\ req[1].stream # <<>> /\ FirstDocument(1).syntax = "ok"
  /\ req[2].stream # <<>> /\ FirstDocument(2).syntax = "ok"

\* the fields of a server other than its headers
withoutHeaders(s) == [s EXCEPT !.headers = EmptyMap]

\* C23: a set_auth answered ok changes, in the configuration, only the
\* headers of the server whose name is the request's name: every header key
\* of the request is there with the request's value, every other header of
\* that server and every field of every other server is as before, and the
\* servers are as many and in the same order; a set_auth whose name matches
\* no server is answered "server not found" and changes nothing.
C23_SetAuthChangesOnlyHeaders ==
  [][\A c \in Conns :
       (/\ req[c].pc = "read"
        /\ req'[c].pc = "closed"
        /\ req[c].request.action = "set_auth") =>
         LET r == req[c].request
             i == IndexOfName(cfg, r.name)
         IN /\ resp'[c][1].ok =>
                 /\ i > 0
                 /\ Len(cfg') = Len(cfg)
                 /\ \A j \in 1..Len(cfg) : j # i => cfg'[j] = cfg[j]
                 /\ withoutHeaders(cfg'[i]) = withoutHeaders(cfg[i])
                 /\ DOMAIN cfg'[i].headers = DOMAIN cfg[i].headers \cup DOMAIN r.headers
                 /\ \A k \in DOMAIN r.headers : cfg'[i].headers[k] = r.headers[k]
                 /\ \A k \in DOMAIN cfg[i].headers \ DOMAIN r.headers :
                      cfg'[i].headers[k] = cfg[i].headers[k]
            /\ (r.name # "" /\ i = 0) =>
                 /\ resp'[c] = <<Answer(FALSE, "server not found", "", <<>>)>>
                 /\ UNCHANGED <<cfg, disk, toolCache, history, tokens>>]_vars

\* a set_auth answered ok that overwrote one header of a server and kept
\* another, and one that found no server
C23_Witness ==
  /\ req[1].pc = "closed" /\ req[1].request.action = "set_auth"
  /\ req[1].request.name = "a"
  /\ resp[1] = <<Answer(TRUE, "", "updated authentication", <<>>)>>
  /\ cfg[1].headers["Authorization"] = "Bearer t"
  /\ cfg[1].headers["Accept"] = "json"
  /\ req[2].pc = "closed" /\ req[2].request.action = "set_auth"
  /\ req[2].request.name = "c"
  /\ resp[2] = <<Answer(FALSE, "server not found", "", <<>>)>>

\* C26: the answer to `servers` has one ServerInfo per configured server, in
\* the order of the configuration, and each carries the name, the command
\* and the env of its server unchanged.
C26_ServersCarryCommandAndEnv ==
  \A c \in Conns :
    (/\ req[c].pc = "closed"
     /\ req[c].request.action = "servers"
     /\ resp[c] # <<>>) =>
      LET infos == resp[c][1].body
      IN /\ Len(infos) = Len(cfg)
         /\ \A i \in 1..Len(infos) :
              /\ infos[i].name = cfg[i].name
              /\ "command" \in DOMAIN infos[i]
              /\ infos[i].command = cfg[i].command
              /\ "env" \in DOMAIN infos[i]
              /\ infos[i].env = cfg[i].env

\* the connections whose handleConn has not returned
InFlight == {c \in Conns : req[c].pc \in {"accepted", "read"}}

\* C30: after SIGTERM or SIGINT every handler in flight still completes: no
\* handler is in flight when the store is closed, and none is cut off by the
\* exit of the process.
C30_InFlightHandlersFinish ==
  /\ ~StoreOpen => InFlight = {}
  /\ \A c \in Conns : req[c].pc # "killed"

----------------------------------------------------------------------------
(* Properties of the token store (under SpecTokens). *)

\* what GetToken of a server is to answer after the saves so far
expectedToken(s) ==
  IF req.saved[s] = <<>> THEN [token |-> <<>>, err |-> NoToken]
  ELSE IF req.saved[s][1].access_token = "" THEN [token |-> <<>>, err |-> NoToken]
  ELSE [token |-> req.saved[s], err |-> NoErr]

\* C24: after any sequence of SaveToken and GetToken over several servers
\* the table holds at most one row per server, GetToken of a server answers
\* the token saved last for that server when its access token is not empty
\* and the no-token error when nothing was saved for it or the access token
\* saved last is empty: so a save for one server never changes the answer
\* for another.
C24_OneTokenPerServer ==
  /\ \A s \in TokenServers :
       /\ Len(rowsOf(tokens, s)) <= 1
       /\ tokenStoreGet(tokens, s, NoErr, req.store, TRUE) = expectedToken(s)
  /\ (req.op = "get" /\ resp[1].err \in {NoErr, NoToken}) => resp[1] = expectedToken(req.server)

\* two saves for one server and one for the other, then a GetToken that
\* answered the token saved last
C24_Witness ==
  /\ req.op = "get"
  /\ req.server = "a"
  /\ Len(tokens) = 2
  /\ tokens[1].server = "a"
  /\ tokens[1].updated_at_utc = 1
  /\ req.saved["a"] = <<[access_token |-> "t2", refresh_token |-> ""]>>
  /\ req.saved["b"] = <<[access_token |-> "", refresh_token |-> "r"]>>
  /\ resp = <<[token |-> req.saved["a"], err |-> NoErr]>>

----------------------------------------------------------------------------
(* Properties of ListTools without a server (under Spec). *)

\* the number of times x occurs in the list s
occurrences(s, x) == Cardinality({i \in 1..Len(s) : s[i] = x})

\* ascending by (server, tool name), in byte order
Ascending(tools) ==
  \A i, j \in 1..Len(tools) :
    i < j => \/ StrRank(tools[i].server) < StrRank(tools[j].server)
             \/ /\ tools[i].server = tools[j].server
                /\ StrRank(tools[i].name) <= StrRank(tools[j].name)

\* C25: ListTools without a server visits the configured servers in order
\* and never returns an error: a server whose listing succeeded adds its
\* tools, a server whose listing failed adds nothing, and what is returned
\* after the last server is those tools in ascending order of (server, tool
\* name).
C25_ListAllToolsNeverFails ==
  [][(pc = "ret" /\ op.kind = "toolsAll") =>
       /\ acc' = IF ret.err = NoErr THEN acc \o ToolInfos(srv.name, ret.val) ELSE acc
       /\ IF queue # <<>>
            THEN pc' # "opdone" /\ srv' = Head(queue) /\ queue' = Tail(queue)
            ELSE /\ pc' = "opdone"
                 /\ out'.err = NoErr
                 /\ Len(out'.val) = Len(acc')
                 /\ \A i \in 1..Len(acc') :
                      occurrences(out'.val, acc'[i]) = occurrences(acc', acc'[i])
                 /\ Ascending(out'.val)]_vars

\* of two servers the first listed its tools and the second failed, and the
\* tools returned are the first's, sorted
C25_Witness ==
  /\ pc = "opdone"
  /\ op.kind = "toolsAll"
  /\ Len(cfg) = 2
  /\ ret.err # NoErr
  /\ out.err = NoErr
  /\ out.val = <<[server |-> "notion", name |-> "fetch"],
                 [server |-> "notion", name |-> "search"]>>

----------------------------------------------------------------------------
(* Properties of parseSchema and parseSchemaDetail (under SpecSchema). *)

\* the names of the properties of the schema given
PropertyNamesGiven ==
  IF req.schema.properties.kind = "object" THEN DOMAIN req.schema.properties.entries ELSE {}

\* the names in a list are in strictly ascending byte order
StrictlyAscending(names) ==
  \A i, j \in 1..Len(names) : i < j => NameRank(names[i]) < NameRank(names[j])

\* C27: parseSchemaDetail returns one PropertyDetail per property of the
\* schema, in ascending order of name, each with Required true exactly when
\* its name is in the required list given; a nil or empty schema gives none.
C27_OneDetailPerProperty ==
  pc = "detailed" =>
    LET details == resp[1].details
    IN /\ {details[i].name : i \in 1..Len(details)} = PropertyNamesGiven
       /\ StrictlyAscending([i \in 1..Len(details) |-> details[i].name])
       /\ \A i \in 1..Len(details) :
            details[i].required <=> (\E j \in 1..Len(req.required) :
                                       req.required[j] = details[i].name)

\* the required list of the schema given
RequiredGiven ==
  IF req.schema.required.kind = "strings" THEN req.schema.required.items ELSE <<>>

\* C28, as stated: for any input parseSchema returns the required list of
\* the schema unchanged and the names of its properties, each once, in
\* ascending order.
C28_RequiredAndSortedNamesForAnyInput ==
  pc = "parsed" =>
    /\ resp[1].required = RequiredGiven
    /\ {resp[1].properties[i] : i \in 1..Len(resp[1].properties)} = PropertyNamesGiven
    /\ StrictlyAscending(resp[1].properties)

\* C28, amended: for an input whose `required` is a list of strings or
\* absent and whose `properties` is an object or absent, parseSchema returns
\* the required list unchanged and the names of the properties, each once, in
\* ascending order; for any other input it returns no required fields and no
\* properties.
C28_RequiredAndSortedNamesWhenDecoded ==
  pc = "parsed" =>
    IF req.schema.required.kind # "other" /\ req.schema.properties.kind # "other"
      THEN /\ resp[1].required = RequiredGiven
           /\ {resp[1].properties[i] : i \in 1..Len(resp[1].properties)} = PropertyNamesGiven
           /\ StrictlyAscending(resp[1].properties)
      ELSE resp[1].required = <<>> /\ resp[1].properties = <<>>

\* the schema of TestParseSchema, with a property more whose name begins
\* with a capital, was parsed
C28_Witness ==
  /\ pc = "parsed"
  /\ req.schema.required.items = <<"query">>
  /\ PropertyNamesGiven = {"query", "limit", "Query"}
  /\ resp[1].properties = <<"Query", "limit", "query">>
  /\ resp[1].required = <<"query">>

----------------------------------------------------------------------------
(* Properties of the daemon with hanging providers (under FairSpecDaemon). *)

\* C29: whatever the providers do, the Refresh of add_server, remove_server,
\* reload and of the start-up ends: the handler answers its request, and Run
\* reaches its accept loop.
C29_RefreshingHandlersAnswer == (hd.pc = "fetch") ~> (hd.pc = "idle")

----------------------------------------------------------------------------
(* Properties of the client handles (under Spec). *)

\* C32: on every client handle Start and Initialize are each invoked at most
\* once, Initialize only after Start and the operation closure only after
\* both; no handle, the OAuth-wrapped one included, has Start invoked a
\* second time.
C32_StartAndInitializeOncePerHandle ==
  /\ direct.starts <= 1 /\ direct.inits <= direct.starts /\ direct.ops <= direct.inits
  /\ oauth.starts <= 1 /\ oauth.inits <= oauth.starts /\ oauth.ops <= oauth.inits

\* a handle is released: closed once if it was constructed, never otherwise
Released(h) == h.closes = (IF h.made THEN 1 ELSE 0)

\* C33: no client handle and no callback server is closed twice, and when
\* the engine has returned, whatever the exit path, the direct handle and
\* the OAuth-wrapped handle it constructed and the callback server it
\* started are each closed exactly once: no client is live between
\* operations.
C33_HandlesReleasedOnce ==
  /\ direct.closes <= 1
  /\ oauth.closes <= 1
  /\ cb.closes <= cb.starts
  /\ cb.starts <= 1
  /\ pc \in {"ret", "opdone", "idle"} =>
       /\ Released(direct)
       /\ Released(oauth)
       /\ cb.closes = cb.starts

\* the engine returned the state mismatch of a flow: both handles and the
\* callback server were in use and are closed
C33_Witness ==
  /\ pc = "ret"
  /\ ret.err = ErrStateMismatch
  /\ direct.made /\ direct.closes = 1
  /\ oauth.made /\ oauth.closes = 1
  /\ cb.starts = 1 /\ cb.closes = 1

----------------------------------------------------------------------------
(* The in-memory configuration after a failed mutation (under SpecDaemon). *)

\* C35: an add_server or set_auth that responds ok=false because persisting
\* failed leaves the daemon's in-memory configuration as it was before the
\* action.
C35_FailedMutationKeepsMemory ==
  [][(MutationFailed /\ req'.action \in {"add_server", "set_auth"}) => cfg' = cfg]_vars

----------------------------------------------------------------------------
(* The configuration an in-flight Refresh reads (under SpecDaemon). *)

\* the servers a running Refresh has not listed yet, as its loop will read
\* them from the slice it ranges over
Pending(it, array) ==
  [j \in (it.i + 1)..it.n |-> IF it.live THEN array[j] ELSE it.snap[j]]

\* C36: the configuration an in-flight Refresh took is immutable for the rest
\* of the operation: no add_server, remove_server or set_auth that runs while
\* the Refresh is between two listings changes the servers, or the headers of
\* the servers, it is still going to read.
C36_SnapshotImmutable ==
  [][(bg.pc = "fetch" /\ bg'.pc = "fetch" /\ bg'.i = bg.i)
       => Pending(bg', arr') = Pending(bg, arr)]_vars

----------------------------------------------------------------------------
(* Properties of the callback server (under SpecCallbacks). *)

\* the flow waited on the callback server and received parameters
Consumed == flow.waits = 1 /\ flow.got # <<>>

\* C39: within one authorization flow the waiter consumes one callback, the
\* first delivered since the callback server was started; every request is
\* answered with the completion page, later parameters are discarded, and a
\* first callback whose state is wrong or missing fails the flow whatever
\* arrived after it.
C39_FirstCallbackDecides ==
  /\ flow.waits <= 1
  /\ Len(resp) = Len(req)
  /\ cb.hits = Len(req)
  /\ \A i \in 1..Len(resp) : resp[i] = CompletionPage
  /\ Len(cb.chan) <= 1
  /\ (cbRunning /\ ~Consumed /\ req # <<>>) => cb.chan = <<req[1]>>
  /\ Consumed => flow.got = <<req[1]>>
  /\ (Consumed /\ req[1].state # flow.state) =>
       /\ pc = "ret"
       /\ ret.err = ErrStateMismatch
       /\ flow.exchanges = 0

\* a callback with a wrong state, then one with the right state and a code:
\* the flow failed on the first
C39_Witness ==
  /\ Consumed
  /\ Len(req) = 2
  /\ req[1].state # flow.state
  /\ req[2].state = flow.state /\ req[2].code = "c"
  /\ ret.err = ErrStateMismatch

----------------------------------------------------------------------------
(* Properties of server resolution (under SpecResolve). *)

\* the servers in the opposite order
Reversed(servers) == [i \in 1..Len(servers) |-> servers[Len(servers) + 1 - i]]

\* C38: in a configuration validate accepts no string is the name of one
\* server and the alias of a different one, so findServer's result for a
\* query does not depend on the order of the servers.
C38_ResolutionUnambiguous ==
  pc = "found" =>
    /\ \A i, j \in 1..Len(req.servers) :
         i # j => req.servers[i].name # req.servers[j].alias
    /\ findServer(Reversed(req.servers), req.query) = resp[1]

----------------------------------------------------------------------------
(* Properties of the Registry's lock (under SpecLocks). *)

\* goroutine g holds r.mu, shared or exclusive
Holds(g) == g \in reg.readers \/ reg.writer = g

\* C34: no Registry operation holds the registry lock while an MCP client
\* method or the OAuth flow is executing: ListTools, InspectTool, Call, Login
\* and Refresh released the shared lock when they copied the config
\* reference, so when every running operation is doing network I/O or
\* waiting for the lock, the lock is free for Servers, ToolCount and
\* UpdateConfig.
C34_NoLockDuringIO ==
  /\ \A g \in Routines : pc[g] = "io" => ~Holds(g)
  /\ (\A g \in Routines : pc[g] \in {"idle", "io", "rlock", "lock"}) => reg = Unlocked

\* UpdateConfig holds the exclusive lock while a Call and the ticker's
\* Refresh are talking to providers
C34_Witness ==
  /\ pc["conn1"] = "io" /\ op["conn1"] = "Call"
  /\ pc["ticker"] = "io"
  /\ pc["conn2"] = "exclusive" /\ op["conn2"] = "UpdateConfig"

----------------------------------------------------------------------------
(* Properties of the store handles (under SpecReload). *)

\* C31: on a reload with a changed db_path the previous handle is closed only
\* after the new one is open and installed: the handle the Server holds and
\* the handle of its Registry are open at every moment, and no handler's
\* history or token access runs on a handle that was closed.
C31_NoClosedHandleInUse ==
  /\ reg.store \in reg.open
  /\ reg.registry \in reg.open
  /\ out.open

----------------------------------------------------------------------------
(* Properties of concurrent mutations (under SpecMutators). *)

\* C37: when two mutating actions run concurrently on different connections
\* neither fails because of the other, and once both have responded the
\* file at the config path equals the in-memory configuration and holds the
\* change of every action that responded ok=true.
C37_ConcurrentMutationsBothSucceed ==
  (\A c \in Conns : pc[c] = "done") =>
    /\ \A c \in Conns : resp[c][1].ok
    /\ ServersOnDisk(disk.live) = cfg
    /\ \A c \in Conns : resp[c][1].ok => holds(ServersOnDisk(disk.live), req[c])

----------------------------------------------------------------------------
(* Properties of remove_server on the store (under SpecReAdd). *)

\* the step is a remove_server that removed a server from s.cfg
RemoveHandled == req'.log = Append(req.log, "remove_server")

\* C40: remove_server changes only the configuration: the oauth_tokens row
\* and the call_history rows of the removed server are left as they were, so
\* the OAuth-wrapped sessions of a server added again under the same name
\* read the token stored before the removal.
C40_RemoveKeepsTokenAndHistory ==
  /\ [][RemoveHandled => (tokens' = tokens /\ history' = history)]_vars
  /\ [](StoreGetToken(tokens, "notion") = StoredToken)
  /\ [](history = <<HistoryRow(1)>>)

\* notion was removed and added again, and the Refresh of add_server listed
\* its tools through the OAuth-wrapped client without a flow
C40_Witness ==
  /\ req.log = <<"remove_server", "add_server">>
  /\ pc = "opdone"
  /\ srv.name = "notion"
  /\ first.err = ErrUnauthorized
  /\ oauth.tokenReads = 1 /\ oauth.ops = 1
  /\ flow.runs = 0
  /\ ret.err = NoErr
  /\ "notion" \in DOMAIN toolCache

====
